---- MODULE Spec2Model ----
(***************************************************************************)
(* ICS Bank -> Lunch Money transaction sync.                               *)
(*                                                                         *)
(* The module models                                                       *)
(*   - the sync script (scripts/sync-transactions.js): start-up            *)
(*     validation, the stages driven by sync(), the date chunker, the      *)
(*     fetch loop, the transformer, the batch uploader, the terminal       *)
(*     result and the global fault handlers;                               *)
(*   - the ledger as documented in the Lunch Money API notes;              *)
(*   - the transform of the bookmarklet (bookmarklet/src/bookmarklet.js);  *)
(*   - the Telegram bot's run lock around the spawned sync process.        *)
(*                                                                         *)
(* A Date object is modelled by its day number (days since 1970-01-01);    *)
(* all Date objects of one run share the time of day of "today", so        *)
(* comparing timestamps is comparing day numbers and setDate(getDate()+k)  *)
(* is adding k.  formatDate turns a day number into <<year, month, day>>,  *)
(* which orders like the zero-padded string YYYY-MM-DD.                    *)
(***************************************************************************)
EXTENDS Integers, Sequences, FiniteSets, TLC

VARIABLES
    pc,              \* position of the sync process
    today,           \* new Date() of the run, as a day number
    syncDays,        \* SYNC_DAYS_PARSED
    chunks,          \* the ranges computed by getDateChunks
    run,             \* number of the sync process being run (1, 2, ...)
    env,             \* process.env: the five required variables
    suffix,          \* process.env.EXTERNAL_ID_SUFFIX ("" when unset)
    skipDup,         \* process.env.SKIP_DUPLICATES !== 'false'
    browser,         \* "none" (undefined), "open" or "closed"
    closeCalled,     \* browser.close() has been invoked in this run
    results,         \* the terminal result objects written by this run, in order
    exitCode,        \* exit code of the process, -1 while it runs
    chunkIdx,        \* i + 1 of the fetch loop
    requested,       \* the ranges requested from the bank in this run, in order
    allTransactions, \* raw transactions accumulated by the fetch loop
    invalidAt,       \* number of the range answered with a non-array, 0 if none
    tagId,           \* id of the run's import tag, 0 before it exists
    lmTransactions,  \* the transformed transactions
    batchIdx,        \* i + 1 of the upload loop
    batchResults,    \* responses of the accepted batches
    ledgerWrites,    \* requests this run has sent to the ledger
    ledger,          \* transactions stored by Lunch Money
    nextTagId,       \* next tag id Lunch Money hands out
    prev,            \* what the previous process uploaded (NoPrev if nothing)
    ICS_ACCOUNT_NUMBER, \* process.env.ICS_ACCOUNT_NUMBER (Absent when unset)
    accountNumber,   \* the script's accountNumber: configured, later resolved
    twoFAConfirmed,  \* wait2FA has returned in this run
    accounts,        \* the descriptors the account list returned in this run
    previews,        \* outcome of each preview search of this run, in order
    accountDetails,  \* the entries collected for the multiple-accounts error
    sourceRequests,  \* the requests this run has sent to the bank's API, in order
    posted,          \* the batches this run has POSTed, each with its outcome
    silentRejects,   \* the ledger may leave transactions out of its answers
    logged,          \* the warnings sendToLunchMoney and sync() have logged
    site,            \* the login page the bank serves to this run
    events,          \* the progress events logInfo has written in this run and
                     \*      the search requests it has sent, in order
    reply,           \* a reply of the ledger, looked at on its own
    verdict,         \* what the script makes of that reply
    tfPrev,          \* transformer on its own: the output of the earlier process
    rev,             \* bot: which of the two revisions of bot.js runs
    isSyncing,       \* bot: the run lock
    handler,         \* bot: per update, how far its handler and its child
                     \*      process have got
    sender,          \* bot: per update, the id of the user it came from
    bm               \* bookmarklet: its settings, its fetch loop and what its
                     \*      progress dialog shows

syncVars == <<run, env, suffix, skipDup, browser, closeCalled, results, exitCode,
              chunkIdx, requested, allTransactions, invalidAt, tagId, lmTransactions,
              batchIdx, batchResults, ledgerWrites, ledger, nextTagId, prev,
              ICS_ACCOUNT_NUMBER, accountNumber, twoFAConfirmed, accounts, previews,
              accountDetails, sourceRequests, posted, silentRejects, logged, site,
              events>>

pureVars == <<reply, verdict>>

botVars == <<rev, isSyncing, handler, sender>>

vars == <<pc, today, syncDays, chunks, syncVars, pureVars, tfPrev, botVars, bm>>

(***************************************************************************)
(* Bounds of the model                                                     *)
(***************************************************************************)
MaxSyncDays == 70

\* 2024-03-15 (window crosses 29 February), 2025-01-10 (window crosses a
\* year end), 2026-02-01 (the scenario of the specification)
Todays == {19797, 20098, 20485}

(***************************************************************************)
(* Calendar: Date.getFullYear / getMonth / getDate                         *)
(***************************************************************************)
CivilFromDays(n) ==
    LET z   == n + 719468
        era == z \div 146097
        doe == z - era * 146097
        yoe == (doe - (doe \div 1460) + (doe \div 36524) - (doe \div 146096)) \div 365
        doy == doe - (365 * yoe + (yoe \div 4) - (yoe \div 100))
        mp  == (5 * doy + 2) \div 153
        d   == doy - ((153 * mp + 2) \div 5) + 1
        m   == IF mp < 10 THEN mp + 3 ELSE mp - 9
        y   == yoe + era * 400 + (IF m <= 2 THEN 1 ELSE 0)
    IN  <<y, m, d>>

\* formatDate(date): `${year}-${month}-${day}`, zero padded
formatDate(n) == CivilFromDays(n)

\* order of two formatted dates (string comparison of YYYY-MM-DD)
DateLeq(a, b) ==
    \/ a[1] < b[1]
    \/ a[1] = b[1] /\ a[2] < b[2]
    \/ a[1] = b[1] /\ a[2] = b[2] /\ a[3] <= b[3]

(***************************************************************************)
(* Date chunker                                                            *)
(***************************************************************************)
ChunkDays == 30

\* (variant: the range end is set one day too far)
ChunkEndWide(current, tdy) ==
    IF current + ChunkDays + 1 > tdy THEN tdy ELSE current + ChunkDays + 1

\* chunkEnd = current + 30 days, clamped to today
ChunkEnd(current, tdy) ==
    IF current + ChunkDays > tdy THEN tdy ELSE current + ChunkDays

RECURSIVE ChunkLoop(_, _, _)
\* while (current < today) { push {from, to}; current = chunkEnd + 1 }
ChunkLoop(current, tdy, acc) ==
    IF current < tdy
    THEN ChunkLoop(ChunkEnd(current, tdy) + 1, tdy,
                   Append(acc, [from |-> formatDate(current),
                                to   |-> formatDate(ChunkEnd(current, tdy))]))
    ELSE acc

getDateChunks(days, tdy) == ChunkLoop(tdy - days, tdy, <<>>)

(***************************************************************************)
(* Raw transactions returned by the bank                                   *)
(***************************************************************************)
\* a field the bank left out (undefined / null)
Absent == "<absent>"

\* values for which JavaScript's `x || y` and `if (x)` take the other branch
Falsy == {Absent, ""}

TxA ==
    [transactionDate |-> "2026-01-15", processingTime |-> "120000",
     batchNr |-> "7", batchSequenceNr |-> "1", billingAmount |-> 1250,
     debitCredit |-> "DEBIT", description |-> "Shop",
     sourceAmount |-> 1250, sourceCurrency |-> "EUR", billingCurrency |-> "EUR"]

\* as TxA, one day later, same batch number and sequence
TxB == [TxA EXCEPT !.transactionDate = "2026-01-16"]

\* a refund in a foreign currency, without a processing time
TxC ==
    [transactionDate |-> "2026-01-16", processingTime |-> Absent,
     batchNr |-> "8", batchSequenceNr |-> "2", billingAmount |-> 990,
     debitCredit |-> "CREDIT", description |-> "Refund",
     sourceAmount |-> 1100, sourceCurrency |-> "USD", billingCurrency |-> "EUR"]

RawTxs == {TxA, TxB, TxC}

\* what the transaction search answers for one range
\* (kind "array": a JSON array, "object": any other JSON value, "error": a
\* status that is not ok, which makes the request throw)
ArrayResponses == {[kind |-> "array", body |-> b] : b \in {<<>>, <<TxA>>, <<TxB, TxC>>}}
NotArray == [kind |-> "object", body |-> <<>>]
HttpError == [kind |-> "error", body |-> <<>>]
Responses == ArrayResponses \cup {NotArray, HttpError}

\* Array.isArray(transactions)
IsArray(resp) == resp.kind = "array"

(***************************************************************************)
(* Account descriptors returned by the bank, and the resolver's helpers    *)
(***************************************************************************)
\* x || y
Or(x, y) == IF x \in Falsy THEN y ELSE x

AcctA == [accountNumber |-> "A1", accountName |-> "Card one",
          productName |-> Absent, balance |-> "100"]
AcctB == [accountNumber |-> "A2", accountName |-> Absent,
          productName |-> "Gold", balance |-> Absent]
\* its number starts with the number of AcctB
AcctC == [accountNumber |-> "A20", accountName |-> Absent,
          productName |-> Absent, balance |-> "5"]
AcctD == [accountNumber |-> "A3", accountName |-> "Card three",
          productName |-> "Basic", balance |-> "0"]

\* what the account list answers: a JSON array of descriptors, a single
\* descriptor that is not wrapped in an array, or a status that is not ok
AccountsResponses ==
    {[kind |-> "array", body |-> b] :
        b \in {<<>>, <<AcctA>>, <<AcctA, AcctB>>, <<AcctC, AcctA, AcctD>>}}
    \cup {[kind |-> "object", body |-> <<AcctA>>], [kind |-> "error", body |-> <<>>]}

\* what a preview search gives the resolver: a JSON value, null (the status
\* was not ok), or a rejection of page.evaluate
NotOk == [kind |-> "null", body |-> <<>>]
Rejected == [kind |-> "rejected", body |-> <<>>]
PreviewResponses == {[kind |-> "array", body |-> <<TxB, TxC>>], NotOk, Rejected}

\* (variant: a configured number is taken without looking it up)
FoundAccountUnchecked(accs, number) == 1..Len(accs)

\* accounts.find((acc) => acc.accountNumber === accountNumber)
FoundAccount(accs, number) ==
    {i \in 1..Len(accs) : accs[i].accountNumber = number}

\* latestTransaction of an entry: <<>> stands for null
LatestTransaction(resp) ==
    IF IsArray(resp) /\ Len(resp.body) > 0
    THEN <<[date        |-> resp.body[1].transactionDate,
            description |-> resp.body[1].description,
            amount      |-> resp.body[1].billingAmount]>>
    ELSE <<>>

\* the entry pushed when the preview request returned
AccountDetail(account, resp) ==
    [accountNumber     |-> account.accountNumber,
     accountName       |-> Or(account.accountName, Or(account.productName, "Unknown")),
     balance           |-> Or(account.balance, "N/A"),
     latestTransaction |-> LatestTransaction(resp)]

\* (variant: a preview that fails adds no entry)
AccountDetailFailedDropped(account) == <<>>

\* the entry pushed by the catch block around one preview
AccountDetailFailed(account) ==
    <<[accountNumber     |-> account.accountNumber,
       accountName       |-> Or(account.accountName, "Unknown"),
       balance           |-> "N/A",
       latestTransaction |-> <<>>]>>

\* the lines of the error message that describe one entry
DetailText(detail) ==
    "Account: " \o detail.accountNumber \o "\n"
        \o "Name: " \o detail.accountName \o "\n"
        \o (IF detail.balance # "N/A" THEN "Balance: " \o detail.balance \o "\n" ELSE "")
        \o (IF Len(detail.latestTransaction) > 0
            THEN "Latest transaction:\n"
                     \o "  - Date: " \o detail.latestTransaction[1].date \o "\n"
                     \o "  - Amount: " \o ToString(detail.latestTransaction[1].amount) \o "\n"
                     \o "  - Description: " \o detail.latestTransaction[1].description \o "\n"
            ELSE "No recent transactions found\n")
        \o "\n"

RECURSIVE DetailsText(_, _)
DetailsText(details, i) ==
    IF i > Len(details) THEN "" ELSE DetailText(details[i]) \o DetailsText(details, i + 1)

\* the message of the multiple-accounts error
MultipleAccountsMessage(n, details) ==
    "Multiple accounts found (" \o ToString(n) \o "). Please set ICS_ACCOUNT_NUMBER in .env:\n\n"
        \o DetailsText(details, 1)
        \o "Add one of these account numbers to your .env file:\nICS_ACCOUNT_NUMBER=<account_number>"

(***************************************************************************)
(* Transformer                                                             *)
(***************************************************************************)
\* parseInt(LUNCHMONEY_ASSET_ID)
assetId == 12345

\* the amount the Lunch Money v2 notes ask for: positive = debit (expense,
\* money out), negative = credit (income, money in)
DocumentedAmount(debitCredit, magnitude) ==
    IF debitCredit = "DEBIT" THEN magnitude ELSE -magnitude

Abs(n) == IF n < 0 THEN -n ELSE n

\* (variant: the key is built from the batch number and the sequence alone)
baseIdOfBatch(t) == t.batchNr \o "-" \o t.batchSequenceNr

\* `${transactionDate}-${processingTime || "000000"}-${batchNr}-${batchSequenceNr}-${billingAmount}`
baseId(t) ==
    t.transactionDate \o "-"
        \o (IF t.processingTime \in Falsy THEN "000000" ELSE t.processingTime) \o "-"
        \o t.batchNr \o "-" \o t.batchSequenceNr \o "-" \o ToString(t.billingAmount)

\* (variant: the id of the run's import tag becomes part of the key)
externalIdWithTag(t, tag, sfx) ==
    IF sfx \in Falsy THEN baseId(t) \o "-" \o ToString(tag)
    ELSE baseId(t) \o "-" \o sfx \o "-" \o ToString(tag)

\* suffix ? `${baseId}-${suffix}` : baseId
externalId(t, tag, sfx) ==
    IF sfx \in Falsy THEN baseId(t) ELSE baseId(t) \o "-" \o sfx

transformOne(t, tag, sfx) ==
    [date              |-> t.transactionDate,
     payee             |-> IF t.description \in Falsy THEN "" ELSE t.description,
     amount            |-> IF t.debitCredit = "DEBIT"
                           THEN -Abs(t.billingAmount) ELSE Abs(t.billingAmount),
     manual_account_id |-> assetId,
     tag_ids           |-> <<tag>>,
     notes             |-> IF t.sourceCurrency \notin Falsy
                              /\ t.sourceCurrency # t.billingCurrency
                           THEN "Original: " \o ToString(t.sourceAmount) \o " "
                                    \o t.sourceCurrency
                           ELSE "",
     external_id       |-> externalId(t, tag, sfx),
     status            |-> "unreviewed"]

\* transactions.map(...) with the EXTERNAL_ID_SUFFIX of the process
transformTransactions(transactions, tag) ==
    [i \in 1..Len(transactions) |-> transformOne(transactions[i], tag, suffix)]

(***************************************************************************)
(* Batch uploader and the ledger                                           *)
(***************************************************************************)
\* 500 in the script; scaled down so that several batches occur
batchSize == 2

Min(a, b) == IF a < b THEN a ELSE b

\* batches.push(transactions.slice(i, i + batchSize)), i = 0, batchSize, ...
NumBatches(txs) == (Len(txs) + batchSize - 1) \div batchSize

\* (variant: the end index of a slice is taken in)
sliceInclusive(arr, start, end) == SubSeq(arr, start + 1, Min(end + 1, Len(arr)))

\* arr.slice(start, end) for 0 <= start <= end: the elements at the indices
\* start .. end - 1 that exist
slice(arr, start, end) == SubSeq(arr, start + 1, Min(end, Len(arr)))

RECURSIVE batchesFrom(_, _)
\* for (let i = 0; i < transactions.length; i += batchSize)
\*     batches.push(transactions.slice(i, i + batchSize))
batchesFrom(transactions, i) ==
    IF i < Len(transactions)
    THEN <<slice(transactions, i, i + batchSize)>>
             \o batchesFrom(transactions, i + batchSize)
    ELSE <<>>

batches(transactions) == batchesFrom(transactions, 0)

\* (variant: the batches are slices from the start of the list)
BatchFromStart(txs, k) == SubSeq(txs, 1, Min(k * batchSize, Len(txs)))

Batch(txs, k) == SubSeq(txs, (k - 1) * batchSize + 1, Min(k * batchSize, Len(txs)))

\* Lunch Money: a transaction whose external_id is stored is skipped; with
\* skip_duplicates one that matches a stored date/payee/amount is skipped too
IsDuplicate(stored, tx, skip) ==
    \E s \in stored :
        \/ s.external_id = tx.external_id
        \/ skip /\ s.date = tx.date /\ s.payee = tx.payee /\ s.amount = tx.amount

StoredForm(tx) ==
    [external_id |-> tx.external_id, date |-> tx.date,
     payee |-> tx.payee, amount |-> tx.amount]

RECURSIVE InsertFrom(_, _, _, _, _)
InsertFrom(batch, i, skip, acc, stored) ==
    IF i > Len(batch) THEN [transactions       |-> acc.transactions,
                            skipped_duplicates |-> acc.skipped_duplicates,
                            stored             |-> stored]
    ELSE IF IsDuplicate(stored, batch[i], skip)
         THEN InsertFrom(batch, i + 1, skip,
                         [acc EXCEPT !.skipped_duplicates = Append(@, batch[i])], stored)
         ELSE InsertFrom(batch, i + 1, skip,
                         [acc EXCEPT !.transactions = Append(@, batch[i])],
                         stored \cup {StoredForm(batch[i])})

\* POST /v2/transactions answered with 201
LedgerInsert(stored, batch, skip) ==
    InsertFrom(batch, 1, skip, [transactions |-> <<>>, skipped_duplicates |-> <<>>], stored)

\* a ledger that leaves the last inserted transaction out: neither stored
\* nor reported as inserted or skipped
LossyInsert(stored, batch, skip) ==
    LET r == LedgerInsert(stored, batch, skip)
    IN  IF Len(r.transactions) = 0 THEN r
        ELSE [transactions       |-> SubSeq(r.transactions, 1, Len(r.transactions) - 1),
              skipped_duplicates |-> r.skipped_duplicates,
              stored             |-> r.stored \ {StoredForm(r.transactions[Len(r.transactions)])}]

\* the answers to a POST the script accepts: the documented one and, from a
\* ledger that rejects silently, one with a transaction left out and one
\* that reports nothing at all
Accepted(stored, batch, skip, lossy) ==
    {LedgerInsert(stored, batch, skip)}
        \cup IF lossy
             THEN {LossyInsert(stored, batch, skip),
                   [transactions |-> <<>>, skipped_duplicates |-> <<>>, stored |-> stored]}
             ELSE {}

\* response.ok
ok(status) == status \in 200..299

\* (variant: the ranges are tested before the single statuses)
userMessageRangesFirst(status, responseText) ==
    IF status >= 500
    THEN "Lunch Money server error (" \o ToString(status)
             \o "). The service may be experiencing issues."
    ELSE IF status >= 400
    THEN "Lunch Money client error (" \o ToString(status)
             \o "). Please check your configuration."
    ELSE "Lunch Money API error (" \o ToString(status) \o ")"

\* the message for a status that is not a success; the texts of the model
\* are shorter than the 200 characters responseText.substring(0, 200) keeps
userMessage(status, responseText) ==
    IF status = 503
    THEN "Lunch Money service is temporarily unavailable (503). Please try again in a few minutes."
    ELSE IF status = 401
    THEN "Invalid Lunch Money API token. Please check your LUNCHMONEY_TOKEN."
    ELSE IF status = 400
    THEN "Lunch Money bad request (400): " \o responseText
    ELSE IF status = 404
    THEN "Lunch Money resource not found (404). Check your manual_account_id."
    ELSE IF status = 429
    THEN "Lunch Money rate limit exceeded (429). Please try again later."
    ELSE IF status = 500
    THEN "Lunch Money server error. Please try again later."
    ELSE IF status >= 400 /\ status < 500
    THEN "Lunch Money client error (" \o ToString(status)
             \o "). Please check your configuration."
    ELSE IF status >= 500
    THEN "Lunch Money server error (" \o ToString(status)
             \o "). The service may be experiencing issues."
    ELSE "Lunch Money API error (" \o ToString(status) \o ")"

\* (variant: a body with an error field passes when the status is a success)
BatchErrorStatusOnly(r) ==
    IF ~ok(r.status) /\ r.status # 201 THEN userMessage(r.status, r.text) ELSE ""

\* the error sendToLunchMoney throws on the reply to a POST, "" if none:
\* r.json tells whether the body parses, r.error is the error field of the
\* parsed body ("" when it has none)
BatchError(r) ==
    IF ~ok(r.status) /\ r.status # 201 THEN userMessage(r.status, r.text)
    ELSE IF ~r.json THEN "Invalid JSON response from Lunch Money: " \o r.text
    ELSE IF r.error # "" THEN "Lunch Money API error: " \o r.error
    ELSE ""

\* which of the checks refused the reply
Outcome(r) ==
    IF ~ok(r.status) /\ r.status # 201 THEN "status"
    ELSE IF ~r.json THEN "unparsable"
    ELSE IF r.error # "" THEN "errorbody"
    ELSE "created"

RECURSIVE SumInserted(_, _)
SumInserted(rs, i) ==
    IF i > Len(rs) THEN 0 ELSE Len(rs[i].transactions) + SumInserted(rs, i + 1)

RECURSIVE SumSkipped(_, _)
SumSkipped(rs, i) ==
    IF i > Len(rs) THEN 0 ELSE Len(rs[i].skipped_duplicates) + SumSkipped(rs, i + 1)

(***************************************************************************)
(* The environment                                                         *)
(***************************************************************************)
\* A variable of process.env is unset (undefined) or holds a text, written
\* as the sequence of its characters.
Unset == [set |-> FALSE, text |-> <<>>]

Text(t) == [set |-> TRUE, text |-> t]

\* value.includes(pat)
includes(t, pat) ==
    \E i \in 1..(Len(t) - Len(pat) + 1) : SubSeq(t, i, i + Len(pat) - 1) = pat

\* "your_"
Placeholder == <<"y", "o", "u", "r", "_">>

\* (variant: only a missing or empty value is refused)
InvalidUnsetOnly(value) == ~value.set \/ value.text = <<>>

\* !value || (typeof value === "string" && value.includes("your_"))
Invalid(value) ==
    \/ ~value.set
    \/ value.text = <<>>
    \/ includes(value.text, Placeholder)

\* the keys of requiredVars, in the order of the loop
requiredVars ==
    <<"ICS_EMAIL", "ICS_PASSWORD", "LUNCHMONEY_TOKEN", "LUNCHMONEY_ASSET_ID", "SYNC_DAYS">>

\* the first key the loop refuses, 0 when it refuses none
RECURSIVE FirstInvalid(_, _)
FirstInvalid(e, i) ==
    IF i > Len(requiredVars) THEN 0
    ELSE IF Invalid(e[requiredVars[i]]) THEN i
    ELSE FirstInvalid(e, i + 1)

Digit(d) == CASE d = 0 -> "0" [] d = 1 -> "1" [] d = 2 -> "2" [] d = 3 -> "3"
              [] d = 4 -> "4" [] d = 5 -> "5" [] d = 6 -> "6" [] d = 7 -> "7"
              [] d = 8 -> "8" [] d = 9 -> "9"

\* the decimal text of an integer
RECURSIVE DigitsOf(_)
DigitsOf(n) ==
    IF n < 0 THEN <<"-">> \o DigitsOf(0 - n)
    ELSE IF n < 10 THEN <<Digit(n)>>
    ELSE DigitsOf(n \div 10) \o <<Digit(n % 10)>>

IsDigit(c) == c \in {"0", "1", "2", "3", "4", "5", "6", "7", "8", "9"}

DigitValue(c) == CHOOSE d \in 0..9 : Digit(d) = c

RECURSIVE TrimStart(_)
\* the text without its leading white space
TrimStart(t) == IF t # <<>> /\ t[1] = " " THEN TrimStart(Tail(t)) ELSE t

RECURSIVE LeadingDigits(_)
\* how many decimal digits the text starts with
LeadingDigits(t) ==
    IF t # <<>> /\ IsDigit(t[1]) THEN 1 + LeadingDigits(Tail(t)) ELSE 0

RECURSIVE ValueOf(_, _)
\* the number written by the first k characters, all of them digits
ValueOf(t, k) == IF k = 0 THEN 0 ELSE 10 * ValueOf(t, k - 1) + DigitValue(t[k])

\* NaN, and null where it is used like NaN
NaN == [nan |-> TRUE, value |-> 0]

\* parseInt(string) of a text without a hexadecimal prefix: leading white
\* space is skipped, a sign is read, then the longest run of decimal digits;
\* NaN when there is no digit
parseInt(t) ==
    LET u    == TrimStart(t)
        sign == u # <<>> /\ u[1] \in {"+", "-"}
        body == IF sign THEN Tail(u) ELSE u
        k    == LeadingDigits(body)
    IN IF k = 0 THEN NaN
       ELSE [nan |-> FALSE,
             value |-> IF sign /\ u[1] = "-" THEN 0 - ValueOf(body, k)
                       ELSE ValueOf(body, k)]

\* const SYNC_DAYS = SYNC_DAYS_STR ? parseInt(SYNC_DAYS_STR) : null
SYNC_DAYS(e) ==
    IF e.SYNC_DAYS.set /\ e.SYNC_DAYS.text # <<>> THEN parseInt(e.SYNC_DAYS.text) ELSE NaN

\* const SYNC_DAYS_PARSED = SYNC_DAYS || 30
SYNC_DAYS_PARSED(e) ==
    IF SYNC_DAYS(e).nan \/ SYNC_DAYS(e).value = 0 THEN 30 ELSE SYNC_DAYS(e).value

\* an environment the validation accepts; the e-mail and the password hold
\* parts of the placeholder but not the placeholder
GoodEnv(days) ==
    [ICS_EMAIL |-> Text(<<"y", "o", "u", "r", "@", "b">>),
     ICS_PASSWORD |-> Text(<<"o", "u", "r", "_">>),
     LUNCHMONEY_TOKEN |-> Text(<<"t">>),
     LUNCHMONEY_ASSET_ID |-> Text(DigitsOf(assetId)),
     SYNC_DAYS |-> Text(DigitsOf(days))]

\* values the validation is to refuse: missing, empty, the placeholder at
\* the start and inside the text
InvalidValues ==
    {Unset, Text(<<>>), Text(Placeholder \o <<"x">>), Text(<<"a">> \o Placeholder \o <<"b">>)}

\* the environments of a run: the good one, each variable made invalid in
\* each way, and all variables missing
RunEnvs(days) ==
    {GoodEnv(days)}
        \cup {[GoodEnv(days) EXCEPT ![k] = v] :
                  k \in DOMAIN GoodEnv(days), v \in InvalidValues}
        \cup {[k \in DOMAIN GoodEnv(days) |-> Unset]}

(***************************************************************************)
(* Terminal results                                                        *)
(***************************************************************************)
\* A result object is a record of one shape; `keys` names the properties the
\* object really has, the other fields hold a filler.  `stage` is no property
\* of the object: it records the stage the script was in when it wrote it.
FailureResult(msg, step) ==
    [success |-> FALSE, error |-> msg, step |-> step, stage |-> step, stream |-> "stderr",
     transactionsCount |-> 0, syncedCount |-> 0, insertedCount |-> 0, skippedCount |-> 0,
     keys |-> {"success", "error", "step"}]

\* the object built by sync()'s catch block
CatchResult(msg) ==
    [FailureResult(msg, "unknown") EXCEPT !.keys = @ \cup {"stack"}]

SuccessResult(found, synced, inserted, skipped) ==
    [success |-> TRUE, error |-> "", step |-> "", stage |-> "", stream |-> "stdout",
     transactionsCount |-> found, syncedCount |-> synced,
     insertedCount |-> inserted, skippedCount |-> skipped,
     keys |-> {"success", "message", "transactionsCount", "syncedCount",
               "insertedCount", "skippedCount", "fromDate", "untilDate",
               "accountNumber", "assetId"}]

\* the object of the zero-transaction short circuit
EmptyResult ==
    [SuccessResult(0, 0, 0, 0) EXCEPT
        !.keys = {"success", "message", "transactionsCount", "syncedCount",
                  "accountNumber"}]

NoPrev == [uploaded |-> FALSE, raw |-> <<>>]

\* the login page as login() finds it: what clicking the cookie banner does
\* ("none": no banner on the page), whether an input for the user name
\* (type text or email, or no type) and one of type password are in the
\* document and displayed, whether a button reads Inloggen or Login or is a
\* submit button, and whether a navigation follows the click within 10 s
Sites ==
    [banner    : {"none", "accepted", "throws"},
     username  : {"absent", "hidden", "visible"},
     password  : {"absent", "hidden", "visible"},
     button    : BOOLEAN,
     navigates : BOOLEAN]

GoodSite ==
    [banner |-> "none", username |-> "visible", password |-> "visible",
     button |-> TRUE, navigates |-> TRUE]

\* logInfo(step, message): the progress event; n and total are the chunk
\* number and the running count where the event carries them, body is the
\* array a search request was answered with
logInfo(step) == [step |-> step, n |-> 0, total |-> 0, body |-> <<>>]

\* the events of a login that went through
LoginEvents ==
    <<logInfo("page_load"), logInfo("fill_form"), logInfo("submit_form"),
      logInfo("2fa_wait"), logInfo("2fa_verified")>>

\* the state of a sync process that has not been started
SyncIdle ==
    /\ run = 0
    /\ env = GoodEnv(syncDays)
    /\ suffix = ""
    /\ skipDup = TRUE
    /\ browser = "none"
    /\ closeCalled = FALSE
    /\ results = <<>>
    /\ exitCode = -1
    /\ chunkIdx = 0
    /\ requested = <<>>
    /\ allTransactions = <<>>
    /\ invalidAt = 0
    /\ tagId = 0
    /\ lmTransactions = <<>>
    /\ batchIdx = 0
    /\ batchResults = <<>>
    /\ ledgerWrites = 0
    /\ ledger = {}
    /\ nextTagId = 1
    /\ prev = NoPrev
    /\ ICS_ACCOUNT_NUMBER = Absent
    /\ accountNumber = Absent
    /\ twoFAConfirmed = FALSE
    /\ accounts = <<>>
    /\ previews = <<>>
    /\ accountDetails = <<>>
    /\ sourceRequests = <<>>
    /\ posted = <<>>
    /\ silentRejects = FALSE
    /\ logged = {}
    /\ site = GoodSite
    /\ events = <<>>

NoReply == [status |-> 0]

PureIdle == reply = NoReply /\ verdict = NoReply

NoTransform == [tag |-> 0, sfx |-> "", out |-> <<>>]

TransformIdle == tfPrev = NoTransform

\* number of updates (messages and callback queries) the bot receives
MaxQueries == 3

Queries == 1..MaxQueries

BotIdle ==
    /\ rev = 2
    /\ isSyncing = FALSE
    /\ handler = [q \in Queries |-> "none"]
    /\ sender = [q \in Queries |-> ""]

\* the bookmarklet before its setup dialog is answered
NoSync ==
    [pos |-> "idle", days |-> 0, until |-> 0, batchNumber |-> 0, totalBatches |-> 0,
     requested |-> <<>>, answer |-> "", totalFetched |-> 0, status |-> "", error |-> ""]

BookmarkletIdle == bm = NoSync

(***************************************************************************)
(* The chunker on its own: inputs drawn from the bounded sets              *)
(***************************************************************************)
InitChunks ==
    /\ pc = "chunker"
    /\ today \in Todays
    /\ syncDays \in 1..MaxSyncDays
    /\ chunks = <<>>
    /\ SyncIdle
    /\ PureIdle
    /\ TransformIdle
    /\ BotIdle
    /\ BookmarkletIdle

RunGetDateChunks ==
    /\ pc = "chunker"
    /\ chunks' = getDateChunks(syncDays, today)
    /\ pc' = "chunked"
    /\ UNCHANGED <<today, syncDays, syncVars, pureVars, tfPrev, botVars, bm>>

NextChunks == RunGetDateChunks

SpecChunks == InitChunks /\ [][NextChunks]_vars

(***************************************************************************)
(* The sync script                                                         *)
(***************************************************************************)
MaxRuns == 2

\* lookbacks giving one, two and three ranges
\* (SYNC_DAYS = "-5" passes validation and yields no range at all)
RunSyncDays == {-5, 1, 31, 40, 62, 65}

\* 2026-02-01
RunToday == 20485

\* the login pages of the runs: the usual one, one without any input for
\* the user name, one whose password input is not displayed, one without a
\* login button
RunSites ==
    {GoodSite,
     [GoodSite EXCEPT !.username = "absent"],
     [GoodSite EXCEPT !.password = "hidden"],
     [GoodSite EXCEPT !.button = FALSE]}

\* ICS_ACCOUNT_NUMBER: not set, or the number of AcctB
ConfiguredAccounts == {Absent, "A2"}

\* positions at which the process is suspended in an await
AwaitPcs == {"launch", "newpage", "page_load", "cookie_banner", "fill_form",
             "submit_form", "navigation", "wait2fa", "settle", "cookies", "account",
             "resolve", "preview", "chunk", "tag", "upload", "closing"}

Last(seq) == seq[Len(seq)]

Init ==
    /\ pc = "start"
    /\ today = RunToday
    /\ syncDays \in RunSyncDays
    /\ chunks = <<>>
    /\ run = 1
    /\ env \in RunEnvs(syncDays)
    /\ suffix \in {"", "v2"}
    /\ skipDup \in BOOLEAN
    /\ browser = "none"
    /\ closeCalled = FALSE
    /\ results = <<>>
    /\ exitCode = -1
    /\ chunkIdx = 0
    /\ requested = <<>>
    /\ allTransactions = <<>>
    /\ invalidAt = 0
    /\ tagId = 0
    /\ lmTransactions = <<>>
    /\ batchIdx = 0
    /\ batchResults = <<>>
    /\ ledgerWrites = 0
    /\ ledger = {}
    /\ nextTagId = 1
    /\ prev = NoPrev
    /\ ICS_ACCOUNT_NUMBER \in ConfiguredAccounts
    /\ accountNumber = ICS_ACCOUNT_NUMBER
    /\ twoFAConfirmed = FALSE
    /\ accounts = <<>>
    /\ previews = <<>>
    /\ accountDetails = <<>>
    /\ sourceRequests = <<>>
    /\ posted = <<>>
    /\ silentRejects = FALSE
    /\ logged = {}
    /\ site \in RunSites
    /\ events = <<>>
    /\ PureIdle
    /\ TransformIdle
    /\ BotIdle
    /\ BookmarkletIdle

\* the variables of the other parts of the model
aside == <<tfPrev, botVars, pureVars, bm>>

envVars == <<today, syncDays, run, env, suffix, skipDup, ICS_ACCOUNT_NUMBER,
             silentRejects, site>>
acctVars == <<accountNumber, accounts, previews, accountDetails>>
stageVars == <<twoFAConfirmed, sourceRequests, acctVars, events>>
fetchVars == <<chunks, chunkIdx, requested, allTransactions, invalidAt>>
uploadVars == <<tagId, lmTransactions, batchIdx, batchResults, ledgerWrites, ledger,
                nextTagId, posted, logged>>

\* sync()'s catch block: one failure object on stderr, then process.exit(1);
\* the process ends inside the catch block, so the finally block is not run
CatchAt(stage, msg) ==
    /\ results' = Append(results, [CatchResult(msg) EXCEPT !.stage = stage])
    /\ exitCode' = 1
    /\ pc' = "exited"
    /\ UNCHANGED <<browser, closeCalled>>

Catch(msg) == CatchAt(pc, msg)

\* start-up validation of the required environment variables
Validate ==
    /\ pc = "start"
    /\ IF FirstInvalid(env, 1) = 0
       THEN /\ pc' = "launch"
            /\ UNCHANGED <<results, exitCode>>
       ELSE /\ results' = Append(results,
                    FailureResult("Missing or invalid environment variable: "
                                      \o requiredVars[FirstInvalid(env, 1)],
                                  "validation"))
            /\ exitCode' = 1
            /\ pc' = "exited"
    /\ UNCHANGED <<aside, envVars, stageVars, fetchVars, uploadVars, browser,
                   closeCalled, prev>>

\* browser = await launchBrowser()
LaunchBrowser ==
    /\ pc = "launch"
    /\ \/ /\ browser' = "open"
          /\ pc' = "newpage"
          /\ UNCHANGED <<results, exitCode, closeCalled>>
       \/ Catch("Failed to launch browser")
    /\ UNCHANGED <<aside, envVars, stageVars, fetchVars, uploadVars, prev>>

\* an awaited stage of sync() either returns, and sync() goes on, or throws
Returns(next) ==
    /\ pc' = next
    /\ UNCHANGED <<results, exitCode, browser, closeCalled>>

\* const page = await browser.newPage(); login(page) starts and awaits
\* page.goto
NewPage ==
    /\ pc = "newpage"
    /\ \/ /\ Returns("page_load")
          /\ events' = Append(events, logInfo("page_load"))
       \/ /\ Catch("Protocol error")
          /\ UNCHANGED events
    /\ UNCHANGED <<aside, envVars, twoFAConfirmed, sourceRequests, acctVars, fetchVars,
                   uploadVars, prev>>

\* login(): await page.goto(loginUrl); its error is logged and thrown again
LoginPageLoad ==
    /\ pc = "page_load"
    /\ Returns("cookie_banner") \/ Catch("Navigation timeout of 30000 ms exceeded")
    /\ UNCHANGED <<aside, envVars, stageVars, fetchVars, uploadVars, prev>>

\* login(): the cookie banner; whether no button is found, the click goes
\* through or something throws, login() goes on to the form
LoginCookieBanner ==
    /\ pc = "cookie_banner"
    /\ site.banner \in {"none", "accepted", "throws"}
    /\ Returns("fill_form")
    /\ events' = Append(events, logInfo("fill_form"))
    /\ UNCHANGED <<aside, envVars, twoFAConfirmed, sourceRequests, acctVars, fetchVars,
                   uploadVars, prev>>

\* page.waitForSelector('input[type="text"], input[type="email"],
\* input:not([type])', {timeout: 10000}) finds an element once one is in the
\* document, displayed or not; inputs of type password do not match
SelectorTimeout == "Waiting for selector failed: timeout 10000ms exceeded"

\* (variant: only the login button is looked for)
FillFormErrorButtonOnly(form) ==
    IF ~form.button THEN "Could not find login button" ELSE ""

\* what the try block of login() that fills the form throws, "" if nothing:
\* the wait for an input, then the displayed fields (offsetParent !== null),
\* then the login button
FillFormError(form) ==
    IF form.username = "absent" THEN SelectorTimeout
    ELSE IF form.username # "visible" \/ form.password # "visible"
         THEN "Could not find username or password field"
    ELSE IF ~form.button THEN "Could not find login button"
    ELSE ""

\* login(): the credentials are filled in and the login button is looked up
LoginFillForm ==
    /\ pc = "fill_form"
    /\ IF FillFormError(site) = ""
       THEN /\ Returns("submit_form")
            /\ events' = Append(events, logInfo("submit_form"))
       ELSE /\ Catch(FillFormError(site))
            /\ UNCHANGED events
    /\ UNCHANGED <<aside, envVars, twoFAConfirmed, sourceRequests, acctVars, fetchVars,
                   uploadVars, prev>>

\* login(): await submitButton.click(); await page.waitForTimeout(1000)
LoginSubmit ==
    /\ pc = "submit_form"
    /\ Returns("navigation") \/ Catch("Node is detached from document")
    /\ UNCHANGED <<aside, envVars, stageVars, fetchVars, uploadVars, prev>>

\* (variant: a navigation that does not come within the 10 s fails the login)
LoginNavigationRequired ==
    /\ pc = "navigation"
    /\ IF site.navigates
       THEN /\ Returns("wait2fa")
            /\ events' = Append(events, logInfo("2fa_wait"))
       ELSE /\ Catch("Navigation timeout of 10000 ms exceeded")
            /\ UNCHANGED events
    /\ UNCHANGED <<aside, envVars, twoFAConfirmed, sourceRequests, acctVars, fetchVars,
                   uploadVars, prev>>

\* login(): await page.waitForNavigation, whose timeout is caught and not
\* thrown again; login() returns and wait2FA(page) starts
LoginNavigation ==
    /\ pc = "navigation"
    /\ site.navigates \in BOOLEAN
    /\ Returns("wait2fa")
    /\ events' = Append(events, logInfo("2fa_wait"))
    /\ UNCHANGED <<aside, envVars, twoFAConfirmed, sourceRequests, acctVars, fetchVars,
                   uploadVars, prev>>

\* (variant: the timeout of the wait is logged and the run goes on)
Wait2FATimeoutIgnored == Returns("cookies")

TwoFATimeoutError ==
    "2FA verification timeout - please confirm on your phone and try again"

\* the page did not leave the login within the timeout
Wait2FATimeout == Catch(TwoFATimeoutError)

\* (variant: wait2FA throws the error it caught)
Wait2FARethrown(stage, msg) == CatchAt(stage, msg)

\* the catch block of wait2FA: whatever was caught, the same error is thrown
Wait2FACaught(stage, msg) == CatchAt(stage, TwoFATimeoutError)

\* await wait2FA(page), up to the end of page.waitForFunction: the page left
\* the login, or the 120 s elapsed, or the wait was rejected for another
\* reason (the page or the browser went away); the catch block of wait2FA
\* throws the same error for every rejection
Wait2FA ==
    /\ pc = "wait2fa"
    /\ \/ /\ Returns("settle")
          /\ twoFAConfirmed' = TRUE
          /\ events' = Append(events, logInfo("2fa_verified"))
       \/ /\ Wait2FATimeout
          /\ UNCHANGED <<twoFAConfirmed, events>>
       \/ /\ Wait2FACaught("target_closed", "Target closed")
          /\ UNCHANGED <<twoFAConfirmed, events>>
    /\ UNCHANGED <<aside, envVars, sourceRequests, acctVars, fetchVars, uploadVars, prev>>

\* wait2FA after the confirmation: await page.waitForTimeout(1000), inside
\* the same try block
Wait2FASettle ==
    /\ pc = "settle"
    /\ Returns("cookies") \/ Wait2FACaught("settle", "Target closed")
    /\ UNCHANGED <<aside, envVars, stageVars, fetchVars, uploadVars, prev>>

\* await page.waitForTimeout(1000); await extractCookies(page)
ExtractCookies ==
    /\ pc = "cookies"
    /\ Returns("account") \/ Catch("Failed to extract cookies")
    /\ UNCHANGED <<aside, envVars, stageVars, fetchVars, uploadVars, prev>>

\* (variant: the loop walks the ranges from the far end)
ChunkAtReversed(cs, i) == cs[Len(cs) + 1 - i]

\* const chunk = chunks[i]
ChunkAt(cs, i) == cs[i]

\* (variant: an empty fetch goes on to the upload like any other)
NoTransactionsFoundUploaded ==
    /\ pc' = "tag"
    /\ UNCHANGED <<results, exitCode>>

\* the zero-transaction short circuit of sync()
NoTransactionsFound ==
    /\ results' = Append(results, EmptyResult)
    /\ pc' = "closing"
    /\ UNCHANGED exitCode

\* determineAccountNumber up to the answer of the account list:
\* accounts = Array.isArray(accountsData) ? accountsData : [accountsData]
FetchAccounts ==
    /\ pc = "account"
    /\ sourceRequests' = Append(sourceRequests, "accounts")
    /\ \E resp \in AccountsResponses :
          \/ /\ resp.kind # "error"
             /\ accounts' = resp.body
             /\ Returns("resolve")
          \/ /\ resp.kind = "error"
             /\ Catch("Failed to fetch accounts")
             /\ UNCHANGED accounts
    /\ UNCHANGED <<aside, envVars, twoFAConfirmed, accountNumber, previews, accountDetails,
                   fetchVars, uploadVars, prev, events>>

\* determineAccountNumber returns number; sync() goes on into
\* fetchTransactions up to the first search request
AccountResolved(number) ==
    /\ accountNumber' = number
    /\ chunks' = getDateChunks(syncDays, today)
    /\ chunkIdx' = 1
    /\ IF Len(chunks') = 0
       THEN NoTransactionsFound
       ELSE /\ pc' = "chunk"
            /\ UNCHANGED <<results, exitCode>>
    /\ UNCHANGED <<browser, closeCalled>>

\* several accounts and none configured: the preview loop starts
SeveralAccounts ==
    /\ Returns("preview")
    /\ UNCHANGED <<accountNumber, chunks, chunkIdx>>

\* determineAccountNumber after the account list and extractCookies
DetermineAccountNumber ==
    /\ pc = "resolve"
    /\ \/ /\ Catch("Failed to extract cookies")
          /\ UNCHANGED <<accountNumber, chunks, chunkIdx>>
       \/ IF Len(accounts) = 0
          THEN /\ Catch("No accounts found")
               /\ UNCHANGED <<accountNumber, chunks, chunkIdx>>
          ELSE IF accountNumber \notin Falsy
               THEN IF FoundAccount(accounts, accountNumber) = {}
                    THEN /\ Catch("Account " \o accountNumber
                                      \o " not found in available accounts")
                         /\ UNCHANGED <<accountNumber, chunks, chunkIdx>>
                    ELSE AccountResolved(accountNumber)
               ELSE IF Len(accounts) = 1
                    THEN AccountResolved(accounts[1].accountNumber)
                    ELSE SeveralAccounts
    /\ UNCHANGED <<aside, envVars, twoFAConfirmed, sourceRequests, accounts, previews,
                   accountDetails, requested, allTransactions, invalidAt, uploadVars, prev,
                   events>>

\* one iteration of the preview loop; after the last account the
\* multiple-accounts error is thrown
PreviewAccount ==
    /\ pc = "preview"
    /\ Len(previews) < Len(accounts)
    /\ sourceRequests' = Append(sourceRequests, "preview")
    /\ \E resp \in PreviewResponses :
          /\ previews' = Append(previews, resp.kind)
          /\ accountDetails' =
                 IF resp.kind = "rejected"
                 THEN accountDetails \o AccountDetailFailed(accounts[Len(previews) + 1])
                 ELSE Append(accountDetails,
                             AccountDetail(accounts[Len(previews) + 1], resp))
    /\ IF Len(previews') = Len(accounts)
       THEN Catch(MultipleAccountsMessage(Len(accounts), accountDetails'))
       ELSE Returns("preview")
    /\ UNCHANGED <<aside, envVars, twoFAConfirmed, accountNumber, accounts, fetchVars,
                   uploadVars, prev, events>>

\* (variant: the transactions of a range are put in front of the earlier ones)
pushInFront(all, transactions) == transactions \o all

\* allTransactions.push(...transactions)
push(all, transactions) == all \o transactions

\* logInfo("fetch_chunk", ..., {chunkIndex: i + 1})
FetchChunkEvent(i) == [logInfo("fetch_chunk") EXCEPT !.n = i]

\* the search request for chunks[i] and the array it was answered with
\* (empty when the answer was no array)
SearchRequest(i, resp) == [logInfo("search") EXCEPT !.n = i, !.body = resp.body]

\* logInfo("chunk_complete", ..., {chunkIndex: i + 1,
\*         totalTransactionsSoFar: allTransactions.length})
ChunkCompleteEvent(i, all) == [logInfo("chunk_complete") EXCEPT !.n = i, !.total = Len(all)]

\* one iteration of the fetch loop whose response is an array; after the
\* last range sync() goes on to the short circuit or to createTag
FetchChunkArray(resp) ==
    /\ allTransactions' = push(allTransactions, resp.body)
    /\ chunkIdx' = chunkIdx + 1
    /\ IF chunkIdx < Len(chunks)
       THEN /\ pc' = "chunk"
            /\ UNCHANGED <<results, exitCode>>
       ELSE IF Len(allTransactions') = 0
            THEN NoTransactionsFound
            ELSE /\ pc' = "tag"
                 /\ UNCHANGED <<results, exitCode>>
    /\ UNCHANGED <<browser, closeCalled>>

\* (variant: a malformed response is taken for an empty range)
FetchChunkInvalidSkipped == FetchChunkArray([kind |-> "array", body |-> <<>>])

\* if (!Array.isArray(transactions)) throw
FetchChunkInvalid ==
    /\ Catch("Invalid transactions response")
    /\ UNCHANGED <<allTransactions, chunkIdx>>

FetchChunk ==
    /\ pc = "chunk"
    /\ chunkIdx <= Len(chunks)
    /\ requested' = Append(requested, ChunkAt(chunks, chunkIdx))
    /\ sourceRequests' = Append(sourceRequests, "search")
    /\ \E resp \in Responses :
          \/ /\ resp.kind # "error"
             /\ IsArray(resp)
             /\ FetchChunkArray(resp)
             /\ events' = events \o <<FetchChunkEvent(chunkIdx),
                                      SearchRequest(chunkIdx, resp),
                                      ChunkCompleteEvent(chunkIdx, allTransactions')>>
             /\ UNCHANGED invalidAt
          \/ /\ resp.kind # "error"
             /\ ~IsArray(resp)
             /\ invalidAt' = chunkIdx
             /\ FetchChunkInvalid
             /\ events' = events \o <<FetchChunkEvent(chunkIdx),
                                      SearchRequest(chunkIdx, resp)>>
          \/ /\ resp.kind = "error"
             /\ Catch("Failed to fetch transactions")
             /\ events' = events \o <<FetchChunkEvent(chunkIdx),
                                      SearchRequest(chunkIdx, resp)>>
             /\ UNCHANGED <<allTransactions, chunkIdx, invalidAt>>
    /\ UNCHANGED <<aside, envVars, twoFAConfirmed, acctVars, chunks, uploadVars, prev>>

\* (variant: the first tag of the list is taken, whatever its name)
FindFirst(tags, name) == IF Len(tags) > 0 THEN 1 ELSE 0

\* tags.find((t) => t.name === tagName): the position of the first tag of
\* that name, 0 when there is none
Find(tags, name) ==
    IF \E i \in 1..Len(tags) : tags[i].name = name
    THEN CHOOSE i \in 1..Len(tags) :
             /\ tags[i].name = name
             /\ \A j \in 1..(i - 1) : tags[j].name # name
    ELSE 0

Thrown(msg) == [ok |-> FALSE, id |-> 0, error |-> msg]

Returned(id) == [ok |-> TRUE, id |-> id, error |-> ""]

\* createTag(tagName) on the replies r of the ledger: r.reached tells whether
\* the POST was answered at all, r.json whether its body parses, r.id is
\* data.id (0 when missing); r.listStatus, r.listJson, r.listArray and
\* r.tags describe the answer to the GET of the tag list
createTag(tagName, r) ==
    IF ~r.reached THEN Thrown("fetch failed")
    ELSE IF ~r.json
    THEN Thrown("Invalid JSON response from Lunch Money tags endpoint: <html>")
    ELSE IF r.status = 201
    THEN IF r.id = 0
         THEN Thrown("Tag created but no ID returned from Lunch Money")
         ELSE Returned(r.id)
    ELSE IF r.status = 400
    THEN IF ~ok(r.listStatus)
         THEN Thrown("Failed to fetch tags: " \o ToString(r.listStatus))
         ELSE IF ~r.listJson
         THEN Thrown("Failed to parse tags list from Lunch Money")
         ELSE IF ~r.listArray
         THEN Thrown("Unexpected tags response format from Lunch Money")
         ELSE IF Find(r.tags, tagName) # 0
         THEN Returned(r.tags[Find(r.tags, tagName)].id)
         ELSE Thrown("Failed to create tag: 400 - {}")
    ELSE Thrown("Failed to create tag: " \o ToString(r.status) \o " - {}")

\* the name of the run's import tag
importTag == "importedAt:2026-02-01T10:00:00.000Z"

\* the replies to the POST of the import tag in a run: 201 with the id the
\* ledger hands out, or 500
RunTagReplies(id) ==
    {[reached |-> TRUE, status |-> 201, json |-> TRUE, id |-> id,
      listStatus |-> 200, listJson |-> TRUE, listArray |-> TRUE, tags |-> <<>>],
     [reached |-> TRUE, status |-> 500, json |-> TRUE, id |-> 0,
      listStatus |-> 200, listJson |-> TRUE, listArray |-> TRUE, tags |-> <<>>]}

\* (variant: without a tag the transactions are uploaded untagged)
TagFailedUploadUntagged(msg) ==
    /\ tagId' = 0
    /\ lmTransactions' = transformTransactions(allTransactions, 0)
    /\ batchIdx' = 1
    /\ pc' = "upload"
    /\ UNCHANGED <<nextTagId, results, exitCode, browser, closeCalled>>

\* createTag throws: sync() has no handler of its own around it, its catch
\* block ends the run
TagFailed(msg) ==
    /\ Catch(msg)
    /\ UNCHANGED <<tagId, nextTagId, lmTransactions, batchIdx>>

\* const tagId = await createTag(importTag), then transformTransactions and
\* the start of sendToLunchMoney up to the first POST
CreateTag ==
    /\ pc = "tag"
    /\ ledgerWrites' = ledgerWrites + 1
    /\ \E r \in RunTagReplies(nextTagId) :
          LET made == createTag(importTag, r)
          IN  IF made.ok
              THEN /\ tagId' = made.id
                   /\ nextTagId' = nextTagId + 1
                   /\ lmTransactions' = transformTransactions(allTransactions, made.id)
                   /\ batchIdx' = 1
                   /\ pc' = "upload"
                   /\ UNCHANGED <<results, exitCode, browser, closeCalled>>
              ELSE TagFailed(made.error)
    /\ UNCHANGED <<aside, envVars, stageVars, fetchVars, batchResults, ledger, posted,
                   logged, prev>>

\* (variant: the warning looks at the inserted transactions only)
CountMismatchInsertedOnly(rs, sent) == SumInserted(rs, 1) # sent

\* totalInserted + totalSkipped !== transactions.length
CountMismatch(rs, sent) == SumInserted(rs, 1) + SumSkipped(rs, 1) # sent

\* the warnings logged once every batch was accepted: the count mismatch at
\* the end of sendToLunchMoney, and sync()'s warning that nothing was inserted
Warnings(rs, sent) ==
    (IF CountMismatch(rs, sent) THEN {"sync_count_mismatch"} ELSE {})
        \cup (IF SumInserted(rs, 1) = 0 /\ sent > 0 THEN {"sync_no_inserts"} ELSE {})

\* sendToLunchMoney returns; the success result of sync(), computed from the
\* batch responses
Synced(rs) ==
    /\ logged' = logged \cup Warnings(rs, Len(lmTransactions))
    /\ results' = Append(results,
           SuccessResult(Len(allTransactions), Len(lmTransactions),
                         SumInserted(rs, 1), SumSkipped(rs, 1)))
    /\ pc' = "closing"
    /\ UNCHANGED exitCode

\* replies to a POST that sendToLunchMoney refuses: a status that is no
\* success, without and with a readable body, and a success status with a
\* body that does not parse or that carries an error field
FailedReplies ==
    {[status |-> 503, json |-> FALSE, error |-> "", text |-> "<html>"],
     [status |-> 429, json |-> TRUE, error |-> "Too many requests", text |-> "{}"],
     [status |-> 200, json |-> FALSE, error |-> "", text |-> "<html>"],
     [status |-> 200, json |-> TRUE, error |-> "Invalid manual_account_id", text |-> "{}"]}

\* the replies to a POST: the refused ones and 201 Created
PostReplies ==
    FailedReplies \cup {[status |-> 201, json |-> TRUE, error |-> "", text |-> "{}"]}

\* (variant: the loop goes on with the next batch after a failure)
BatchFailedSkipped(msg) ==
    /\ batchIdx' = batchIdx + 1
    /\ IF batchIdx < NumBatches(lmTransactions)
       THEN /\ pc' = "upload"
            /\ UNCHANGED <<results, exitCode, logged>>
       ELSE Synced(batchResults)
    /\ UNCHANGED <<ledger, batchResults, browser, closeCalled>>

\* the POST of a batch fails: the error is thrown out of sendToLunchMoney
\* into sync()'s catch block
BatchFailed(msg) ==
    /\ Catch(msg)
    /\ UNCHANGED <<ledger, batchResults, batchIdx, logged>>

\* the reply passed every check: results.push(result), and after the last
\* batch sendToLunchMoney returns
BatchAccepted(r) ==
    /\ ledger' = r.stored
    /\ batchResults' = Append(batchResults,
           [transactions       |-> r.transactions,
            skipped_duplicates |-> r.skipped_duplicates])
    /\ batchIdx' = batchIdx + 1
    /\ IF batchIdx < NumBatches(lmTransactions)
       THEN /\ pc' = "upload"
            /\ UNCHANGED <<results, exitCode, logged>>
       ELSE Synced(batchResults')
    /\ UNCHANGED <<browser, closeCalled>>

\* one iteration of the upload loop: the POST is answered, or fetch rejects
SendBatch ==
    /\ pc = "upload"
    /\ batchIdx <= NumBatches(lmTransactions)
    /\ ledgerWrites' = ledgerWrites + 1
    /\ \/ \E re \in PostReplies :
             /\ posted' = Append(posted, [batch |-> batchIdx, outcome |-> Outcome(re),
                                          status |-> re.status])
             /\ IF BatchError(re) = ""
                THEN \E r \in Accepted(ledger, Batch(lmTransactions, batchIdx), skipDup,
                                       silentRejects) : BatchAccepted(r)
                ELSE BatchFailed(BatchError(re))
       \/ /\ posted' = Append(posted, [batch |-> batchIdx, outcome |-> "network",
                                        status |-> 0])
          /\ BatchFailed("fetch failed")
    /\ UNCHANGED <<aside, envVars, stageVars, fetchVars, tagId, lmTransactions, nextTagId,
                   prev>>

\* the finally block after a returned result: await browser.close(), whose
\* failure is caught and logged; then the process ends with code 0
CloseBrowser ==
    /\ pc = "closing"
    /\ closeCalled' = TRUE
    /\ browser' \in {"closed", "open"}
    /\ exitCode' = 0
    /\ pc' = "exited"
    /\ UNCHANGED <<aside, envVars, stageVars, fetchVars, uploadVars, results, prev>>

\* process.on('unhandledRejection') / process.on('uncaughtException'):
\* one failure object on stderr, then process.exit(1)
UnhandledFault ==
    /\ pc \in AwaitPcs
    /\ results' = Append(results,
           [FailureResult("Unhandled promise rejection", "unhandled_error")
               EXCEPT !.keys = @ \cup {"details"}])
    /\ exitCode' = 1
    /\ pc' = "exited"
    /\ UNCHANGED <<aside, envVars, stageVars, fetchVars, uploadVars, browser, closeCalled,
                   prev>>

UploadedBy(rs, raw) ==
    IF Len(rs) > 0 /\ Last(rs).success /\ Last(rs).syncedCount > 0
    THEN [uploaded |-> TRUE, raw |-> raw]
    ELSE NoPrev

\* the script is started again, with the same configuration, against the
\* same ledger
StartAgain ==
    /\ pc = "exited"
    /\ run < MaxRuns
    /\ run' = run + 1
    /\ prev' = UploadedBy(results, allTransactions)
    /\ pc' = "start"
    /\ browser' = "none"
    /\ closeCalled' = FALSE
    /\ results' = <<>>
    /\ exitCode' = -1
    /\ chunks' = <<>>
    /\ chunkIdx' = 0
    /\ requested' = <<>>
    /\ allTransactions' = <<>>
    /\ invalidAt' = 0
    /\ tagId' = 0
    /\ lmTransactions' = <<>>
    /\ batchIdx' = 0
    /\ batchResults' = <<>>
    /\ ledgerWrites' = 0
    /\ accountNumber' = ICS_ACCOUNT_NUMBER
    /\ twoFAConfirmed' = FALSE
    /\ accounts' = <<>>
    /\ previews' = <<>>
    /\ accountDetails' = <<>>
    /\ sourceRequests' = <<>>
    /\ posted' = <<>>
    /\ logged' = {}
    /\ events' = <<>>
    /\ UNCHANGED <<aside, today, syncDays, env, suffix, skipDup, ICS_ACCOUNT_NUMBER,
                   silentRejects, ledger, nextTagId, site>>

Next ==
    \/ Validate
    \/ LaunchBrowser
    \/ NewPage
    \/ LoginPageLoad
    \/ LoginCookieBanner
    \/ LoginFillForm
    \/ LoginSubmit
    \/ LoginNavigation
    \/ Wait2FA
    \/ Wait2FASettle
    \/ ExtractCookies
    \/ FetchAccounts
    \/ DetermineAccountNumber
    \/ PreviewAccount
    \/ FetchChunk
    \/ CreateTag
    \/ SendBatch
    \/ CloseBrowser
    \/ UnhandledFault
    \/ StartAgain

Spec == Init /\ [][Next]_vars

(***************************************************************************)
(* The fetch and the upload of one run, from the resolved account on,      *)
(* against a ledger that may reject silently                               *)
(***************************************************************************)
\* what an earlier run that found TxA has left in the ledger
EarlierUpload == {StoredForm(transformOne(TxA, 1, ""))}

InitUpload ==
    /\ pc = "chunk"
    /\ today = RunToday
    /\ syncDays \in {1, 40}
    /\ chunks = getDateChunks(syncDays, today)
    /\ run = 1
    /\ env = GoodEnv(syncDays)
    /\ suffix = ""
    /\ skipDup \in BOOLEAN
    /\ browser = "open"
    /\ closeCalled = FALSE
    /\ results = <<>>
    /\ exitCode = -1
    /\ chunkIdx = 1
    /\ requested = <<>>
    /\ allTransactions = <<>>
    /\ invalidAt = 0
    /\ tagId = 0
    /\ lmTransactions = <<>>
    /\ batchIdx = 0
    /\ batchResults = <<>>
    /\ ledgerWrites = 0
    /\ ledger \in {{}, EarlierUpload}
    /\ nextTagId = IF ledger = {} THEN 1 ELSE 2
    /\ prev = NoPrev
    /\ ICS_ACCOUNT_NUMBER = Absent
    /\ accountNumber = AcctA.accountNumber
    /\ twoFAConfirmed = TRUE
    /\ accounts = <<AcctA>>
    /\ previews = <<>>
    /\ accountDetails = <<>>
    /\ sourceRequests = <<"accounts">>
    /\ posted = <<>>
    /\ silentRejects \in BOOLEAN
    /\ logged = {}
    /\ site = GoodSite
    /\ events = LoginEvents
    /\ PureIdle
    /\ TransformIdle
    /\ BotIdle
    /\ BookmarkletIdle

NextUpload ==
    \/ FetchChunk
    \/ CreateTag
    \/ SendBatch
    \/ CloseBrowser

SpecUpload == InitUpload /\ [][NextUpload]_vars

(***************************************************************************)
(* login() and wait2FA() on their own: the process has opened its page and *)
(* meets every login page of Sites.                                        *)
(***************************************************************************)
InitLogin ==
    /\ pc = "page_load"
    /\ today = RunToday
    /\ syncDays = 1
    /\ chunks = <<>>
    /\ run = 1
    /\ env = GoodEnv(syncDays)
    /\ suffix = ""
    /\ skipDup = TRUE
    /\ browser = "open"
    /\ closeCalled = FALSE
    /\ results = <<>>
    /\ exitCode = -1
    /\ chunkIdx = 0
    /\ requested = <<>>
    /\ allTransactions = <<>>
    /\ invalidAt = 0
    /\ tagId = 0
    /\ lmTransactions = <<>>
    /\ batchIdx = 0
    /\ batchResults = <<>>
    /\ ledgerWrites = 0
    /\ ledger = {}
    /\ nextTagId = 1
    /\ prev = NoPrev
    /\ ICS_ACCOUNT_NUMBER = Absent
    /\ accountNumber = ICS_ACCOUNT_NUMBER
    /\ twoFAConfirmed = FALSE
    /\ accounts = <<>>
    /\ previews = <<>>
    /\ accountDetails = <<>>
    /\ sourceRequests = <<>>
    /\ posted = <<>>
    /\ silentRejects = FALSE
    /\ logged = {}
    /\ site \in Sites
    /\ events = <<logInfo("page_load")>>
    /\ PureIdle
    /\ TransformIdle
    /\ BotIdle
    /\ BookmarkletIdle

NextLogin ==
    \/ LoginPageLoad
    \/ LoginCookieBanner
    \/ LoginFillForm
    \/ LoginSubmit
    \/ LoginNavigation
    \/ Wait2FA
    \/ Wait2FASettle

SpecLogin == InitLogin /\ [][NextLogin]_vars

(***************************************************************************)
(* The checks of a reply to a POST on their own: every status from 200 to  *)
(* 599, with a body that parses or not                                     *)
(***************************************************************************)
StatusCodes == 200..599

InitStatus ==
    /\ pc = "reply"
    /\ reply \in [status : StatusCodes, json : BOOLEAN, error : {""}, text : {"<html>", "{}"}]
    /\ verdict = NoReply
    /\ today = RunToday
    /\ syncDays = 1
    /\ chunks = <<>>
    /\ SyncIdle
    /\ TransformIdle
    /\ BotIdle
    /\ BookmarkletIdle

\* the checks of sendToLunchMoney applied to the reply
CheckReply ==
    /\ pc = "reply"
    /\ verdict' = [status |-> reply.status, outcome |-> Outcome(reply),
                   thrown |-> BatchError(reply)]
    /\ pc' = "checked"
    /\ UNCHANGED <<reply, today, syncDays, chunks, syncVars, tfPrev, botVars, bm>>

NextStatus == CheckReply

SpecStatus == InitStatus /\ [][NextStatus]_vars

(***************************************************************************)
(* createTag on its own, over the replies of the ledger                    *)
(***************************************************************************)
\* a tag of the requested name, one whose name differs in case only, and a
\* second tag of the requested name
TagLists ==
    {<<>>,
     <<[name |-> "ImportedAt:2026-02-01T10:00:00.000Z", id |-> 6]>>,
     <<[name |-> "groceries", id |-> 6], [name |-> importTag, id |-> 7]>>,
     <<[name |-> importTag, id |-> 8], [name |-> importTag, id |-> 9]>>}

TagReplies ==
    [reached : BOOLEAN, status : {201, 400, 401, 500}, json : BOOLEAN, id : {0, 5},
     listStatus : {200, 500}, listJson : BOOLEAN, listArray : BOOLEAN, tags : TagLists]

InitTag ==
    /\ pc = "tagreply"
    /\ reply \in TagReplies
    /\ verdict = NoReply
    /\ today = RunToday
    /\ syncDays = 1
    /\ chunks = <<>>
    /\ SyncIdle
    /\ TransformIdle
    /\ BotIdle
    /\ BookmarkletIdle

RunCreateTag ==
    /\ pc = "tagreply"
    /\ verdict' = createTag(importTag, reply)
    /\ pc' = "tagged"
    /\ UNCHANGED <<reply, today, syncDays, chunks, syncVars, tfPrev, botVars, bm>>

NextTag == RunCreateTag

SpecTag == InitTag /\ [][NextTag]_vars

(***************************************************************************)
(* The transformer on its own: one raw transaction transformed by two      *)
(* processes, each with its own import tag and its own environment         *)
(***************************************************************************)
MaxTagId == 2

Suffixes == {Absent, "", "v2"}

TransformInputs ==
    [transactionDate : {"2026-01-15", "2026-01-16"},
     processingTime  : {Absent, "000000", "120000"},
     batchNr         : {"7", "8"},
     batchSequenceNr : {"1", "2"},
     billingAmount   : {1250, -990},
     debitCredit     : {"DEBIT", "CREDIT"},
     description     : {"Shop", Absent},
     sourceAmount    : {1100},
     sourceCurrency  : {Absent, "EUR", "USD"},
     billingCurrency : {"EUR"}]

\* the process has fetched its transactions and created its import tag
Fetched ==
    /\ pc = "transform"
    /\ tfPrev = NoTransform
    /\ today = RunToday
    /\ syncDays = 1
    /\ chunks = <<>>
    /\ run = 1
    /\ env = GoodEnv(syncDays)
    /\ skipDup = TRUE
    /\ browser = "open"
    /\ closeCalled = FALSE
    /\ results = <<>>
    /\ exitCode = -1
    /\ chunkIdx = 0
    /\ requested = <<>>
    /\ invalidAt = 0
    /\ lmTransactions = <<>>
    /\ batchIdx = 0
    /\ batchResults = <<>>
    /\ ledgerWrites = 0
    /\ ledger = {}
    /\ nextTagId = 1
    /\ prev = NoPrev
    /\ ICS_ACCOUNT_NUMBER = Absent
    /\ accountNumber = "A1"
    /\ twoFAConfirmed = TRUE
    /\ accounts = <<>>
    /\ previews = <<>>
    /\ accountDetails = <<>>
    /\ sourceRequests = <<>>
    /\ posted = <<>>
    /\ silentRejects = FALSE
    /\ logged = {}
    /\ site = GoodSite
    /\ events = LoginEvents
    /\ PureIdle
    /\ BotIdle
    /\ BookmarkletIdle

InitTransform ==
    /\ allTransactions \in {<<t>> : t \in TransformInputs}
    /\ suffix \in Suffixes
    /\ tagId \in 1..MaxTagId
    /\ Fetched

\* the bookmarklet's lmTxns: bankData.map(...)
lmTxn(t, tag) ==
    [date              |-> t.transactionDate,
     payee             |-> IF t.description = Absent THEN "" ELSE t.description,
     amount            |-> t.billingAmount,
     manual_account_id |-> assetId,
     tag_ids           |-> IF tag = 0 THEN <<>> ELSE <<tag>>,
     notes             |-> IF t.sourceCurrency \notin Falsy
                              /\ t.sourceCurrency # t.billingCurrency
                           THEN "Original: " \o ToString(t.sourceAmount) \o " "
                                    \o t.sourceCurrency
                           ELSE "",
     external_id       |-> baseId(t),
     status            |-> "unreviewed"]

\* the bookmarklet transforms what it fetched
BookmarkletTransform ==
    /\ pc = "transform"
    /\ tfPrev = NoTransform
    /\ lmTransactions' = [i \in 1..Len(allTransactions) |-> lmTxn(allTransactions[i], tagId)]
    /\ pc' = "bookmarklet"
    /\ UNCHANGED <<allTransactions, suffix, tagId, tfPrev, today, syncDays, chunks, run,
                   env, skipDup, browser, closeCalled, results, exitCode, chunkIdx,
                   requested, invalidAt, batchIdx, batchResults, ledgerWrites, ledger,
                   nextTagId, prev, ICS_ACCOUNT_NUMBER, stageVars, posted, silentRejects,
                   logged, site, pureVars, botVars, bm>>

\* const lmTransactions = transformTransactions(transactions, tagId)
RunTransform ==
    /\ pc = "transform"
    /\ lmTransactions' = transformTransactions(allTransactions, tagId)
    /\ pc' = "transformed"
    /\ UNCHANGED <<allTransactions, suffix, tagId, tfPrev, today, syncDays, chunks, run,
                   env, skipDup, browser, closeCalled, results, exitCode, chunkIdx,
                   requested, invalidAt, batchIdx, batchResults, ledgerWrites, ledger,
                   nextTagId, prev, ICS_ACCOUNT_NUMBER, stageVars, posted, silentRejects,
                   logged, site, pureVars, botVars, bm>>

\* a later process meets the same raw transaction: another import tag,
\* possibly another EXTERNAL_ID_SUFFIX
NextProcess ==
    /\ pc = "transformed"
    /\ tfPrev = NoTransform
    /\ tfPrev' = [tag |-> tagId, sfx |-> suffix, out |-> lmTransactions]
    /\ suffix' \in Suffixes
    /\ tagId' \in 1..MaxTagId
    /\ lmTransactions' = <<>>
    /\ run' = run + 1
    /\ pc' = "transform"
    /\ UNCHANGED <<allTransactions, today, syncDays, chunks, env, skipDup, browser,
                   closeCalled, results, exitCode, chunkIdx, requested, invalidAt,
                   batchIdx, batchResults, ledgerWrites, ledger, nextTagId, prev,
                   ICS_ACCOUNT_NUMBER, stageVars, posted, silentRejects, logged, site,
                   pureVars, botVars, bm>>

NextTransform ==
    \/ RunTransform
    \/ NextProcess

SpecTransform == InitTransform /\ [][NextTransform]_vars

(***************************************************************************)
(* The transformers applied to two raw transactions of one fetch           *)
(***************************************************************************)
PairInputs ==
    [transactionDate : {"2026-01-15", "2026-01-16"},
     processingTime  : {Absent, "000000", "120000"},
     batchNr         : {"7", "8"},
     batchSequenceNr : {"1", "2"},
     billingAmount   : {1250, -990},
     debitCredit     : {"DEBIT", "CREDIT"},
     description     : {"Shop"},
     sourceAmount    : {1100},
     sourceCurrency  : {"EUR"},
     billingCurrency : {"EUR"}]

InitPairs ==
    /\ allTransactions \in {<<t, u>> : t \in PairInputs, u \in PairInputs}
    /\ suffix \in {Absent, "v2"}
    /\ tagId = 1
    /\ Fetched

NextPairs ==
    \/ RunTransform
    \/ BookmarkletTransform

SpecPairs == InitPairs /\ [][NextPairs]_vars

(***************************************************************************)
(* The Telegram bot: the run lock around the spawned sync process          *)
(*                                                                         *)
(* handler[q] follows update q. A message: "none" (not received),          *)
(* "told_teapot" (unauthorized), "button" (the GO button was sent).        *)
(* A callback query: "none" (not received), "teapot"                       *)
(* (unauthorized), "rejected" (answered 'already in progress'),            *)
(* "answering" / "editing" (lock taken, awaiting answerCallbackQuery /     *)
(* editMessageText), "aborted" (the handler's promise rejected),           *)
(* "running" (child spawned and alive), "exited" (child ended, 'close'     *)
(* not yet delivered), "spawnfailed" ('error' not yet delivered),          *)
(* "errored" ('error' delivered), "closed" ('close' delivered).            *)
(***************************************************************************)
USER_ID == "1001"

Users == {"1001", "2002"}

Revisions == {1, 2}

InitBot ==
    /\ pc = "bot"
    /\ rev \in Revisions
    /\ isSyncing = FALSE
    /\ handler = [q \in Queries |-> "none"]
    /\ sender = [q \in Queries |-> ""]
    /\ today = RunToday
    /\ syncDays = 1
    /\ chunks = <<>>
    /\ SyncIdle
    /\ PureIdle
    /\ TransformIdle
    /\ BookmarkletIdle

notBot == <<pc, today, syncDays, chunks, syncVars, pureVars, tfPrev, bm>>

\* (variant: every sender passes)
AuthorizedAnyone(u) == TRUE

\* userId === USER_ID, both strings
Authorized(u) == u = USER_ID

\* bot.on('message'): the teapot for a stranger, the GO button for the user
Message(q, u) ==
    /\ handler[q] = "none"
    /\ \A p \in Queries : p < q => handler[p] # "none"
    /\ sender' = [sender EXCEPT ![q] = u]
    /\ handler' = [handler EXCEPT ![q] = IF Authorized(u) THEN "button" ELSE "told_teapot"]
    /\ UNCHANGED <<rev, isSyncing, notBot>>

\* bot.on('callback_query'), up to its first await
CallbackQuery(q, u) ==
    /\ handler[q] = "none"
    /\ \A p \in Queries : p < q => handler[p] # "none"
    /\ sender' = [sender EXCEPT ![q] = u]
    /\ IF ~Authorized(u)
       THEN /\ handler' = [handler EXCEPT ![q] = "teapot"]
            /\ UNCHANGED isSyncing
       ELSE IF isSyncing
            THEN /\ handler' = [handler EXCEPT ![q] = "rejected"]
                 /\ UNCHANGED isSyncing
            ELSE /\ isSyncing' = TRUE
                 /\ handler' = [handler EXCEPT ![q] = "answering"]
    /\ UNCHANGED <<rev, notBot>>

\* a rejected Telegram call is caught (.catch) in the second revision only
Caught == rev = 2

\* await bot.answerCallbackQuery(query.id, { text: 'Processing...' })
AnswerDone(q) ==
    /\ handler[q] = "answering"
    /\ \E resolved \in BOOLEAN :
          handler' = [handler EXCEPT ![q] =
                         IF resolved \/ Caught THEN "editing" ELSE "aborted"]
    /\ UNCHANGED <<rev, isSyncing, sender, notBot>>

\* await bot.editMessageText('Processing...'), then spawn('bun', ...) and the
\* registration of the listeners
EditDone(q) ==
    /\ handler[q] = "editing"
    /\ \E resolved \in BOOLEAN, spawned \in BOOLEAN :
          handler' = [handler EXCEPT ![q] =
                         IF resolved \/ Caught
                         THEN (IF spawned THEN "running" ELSE "spawnfailed")
                         ELSE "aborted"]
    /\ UNCHANGED <<rev, isSyncing, sender, notBot>>

\* the sync process ends
ChildExit(q) ==
    /\ handler[q] = "running"
    /\ handler' = [handler EXCEPT ![q] = "exited"]
    /\ UNCHANGED <<rev, isSyncing, sender, notBot>>

\* bunProcess.on('close'): emitted after the process has ended, and after
\* 'error' when the process could not be spawned
OnClose(q) ==
    /\ handler[q] \in {"exited", "errored"}
    /\ isSyncing' = FALSE
    /\ handler' = [handler EXCEPT ![q] = "closed"]
    /\ UNCHANGED <<rev, sender, notBot>>

\* bunProcess.on('error'): the process could not be spawned
OnError(q) ==
    /\ handler[q] = "spawnfailed"
    /\ isSyncing' = FALSE
    /\ handler' = [handler EXCEPT ![q] = "errored"]
    /\ UNCHANGED <<rev, sender, notBot>>

NextBot ==
    \/ \E q \in Queries, u \in Users : Message(q, u)
    \/ \E q \in Queries, u \in Users : CallbackQuery(q, u)
    \/ \E q \in Queries : AnswerDone(q)
    \/ \E q \in Queries : EditDone(q)
    \/ \E q \in Queries : ChildExit(q)
    \/ \E q \in Queries : OnClose(q)
    \/ \E q \in Queries : OnError(q)

SpecBot == InitBot /\ [][NextBot]_vars

\* every pending Telegram call settles, the sync process ends (its waits are
\* bounded by timeouts), and every pending event is delivered
BotFairness ==
    \A q \in Queries :
        /\ WF_vars(AnswerDone(q))
        /\ WF_vars(EditDone(q))
        /\ WF_vars(ChildExit(q))
        /\ WF_vars(OnClose(q))
        /\ WF_vars(OnError(q))

FairSpecBot == InitBot /\ [][NextBot]_vars /\ BotFairness

(***************************************************************************)
(* SYNC_DAYS on its own: texts of up to MaxTextLen characters are          *)
(* validated, parsed and handed to getDateChunks.                          *)
(***************************************************************************)
MaxTextLen == 3

TextChars == {" ", "-", "0", "1", "3", "a"}

Texts == UNION {[1..n -> TextChars] : n \in 1..MaxTextLen}

InitSyncDays ==
    /\ pc = "env"
    /\ today = RunToday
    /\ syncDays = 0
    /\ chunks = <<>>
    /\ run = 1
    /\ \E v \in {Text(t) : t \in Texts} \cup InvalidValues :
          env = [GoodEnv(1) EXCEPT !.SYNC_DAYS = v]
    /\ suffix = ""
    /\ skipDup = TRUE
    /\ browser = "none"
    /\ closeCalled = FALSE
    /\ results = <<>>
    /\ exitCode = -1
    /\ chunkIdx = 0
    /\ requested = <<>>
    /\ allTransactions = <<>>
    /\ invalidAt = 0
    /\ tagId = 0
    /\ lmTransactions = <<>>
    /\ batchIdx = 0
    /\ batchResults = <<>>
    /\ ledgerWrites = 0
    /\ ledger = {}
    /\ nextTagId = 1
    /\ prev = NoPrev
    /\ ICS_ACCOUNT_NUMBER = Absent
    /\ accountNumber = ICS_ACCOUNT_NUMBER
    /\ twoFAConfirmed = FALSE
    /\ accounts = <<>>
    /\ previews = <<>>
    /\ accountDetails = <<>>
    /\ sourceRequests = <<>>
    /\ posted = <<>>
    /\ silentRejects = FALSE
    /\ logged = {}
    /\ site = GoodSite
    /\ events = <<>>
    /\ PureIdle
    /\ TransformIdle
    /\ BotIdle
    /\ BookmarkletIdle

\* the script reads and validates its environment; an accepted SYNC_DAYS is
\* parsed and, later, handed to getDateChunks
ReadSyncDays ==
    /\ pc = "env"
    /\ IF FirstInvalid(env, 1) # 0
       THEN /\ pc' = "refused"
            /\ UNCHANGED <<syncDays, chunks>>
       ELSE /\ syncDays' = SYNC_DAYS_PARSED(env)
            /\ chunks' = getDateChunks(syncDays', today)
            /\ pc' = "parsed"
    /\ UNCHANGED <<today, syncVars, pureVars, tfPrev, botVars, bm>>

NextSyncDays == ReadSyncDays

SpecSyncDays == InitSyncDays /\ [][NextSyncDays]_vars

(***************************************************************************)
(* The bookmarklet's fetch loop: the window of `days` days is walked back  *)
(* from today in ranges of 30 days; every range is fetched, transformed    *)
(* and sent before the next one is asked for.                              *)
(***************************************************************************)
\* cutoff.setDate(cutoff.getDate() - days)
cutoff(tdy, days) == tdy - days

\* from = until - 30 days; if (from < cutoff) from = cutoff
RangeFrom(until, cut) == IF until - 30 < cut THEN cut ELSE until - 30

RECURSIVE CountBatches(_, _)
\* while (tempUntil > cutoff) { batches.push(...); tempUntil = tempFrom - 1 }
CountBatches(tempUntil, cut) ==
    IF tempUntil > cut
    THEN 1 + CountBatches(RangeFrom(tempUntil, cut) - 1, cut)
    ELSE 0

\* the setup dialog resolves: parseInt(daysInput.value, 10) with days >= 1
InitBookmarklet ==
    /\ pc = "bookmarklet"
    /\ today = RunToday
    /\ syncDays = 1
    /\ chunks = <<>>
    /\ SyncIdle
    /\ PureIdle
    /\ TransformIdle
    /\ rev = 2
    /\ isSyncing = FALSE
    /\ handler = [q \in Queries |-> "none"]
    /\ sender = [q \in Queries |-> ""]
    /\ \E days \in 1..MaxSyncDays : bm = [NoSync EXCEPT !.pos = "setup", !.days = days]

\* the progress dialog is created and the batches are counted
BookmarkletStart ==
    /\ bm.pos = "setup"
    /\ bm' = [bm EXCEPT !.pos = "fetch",
                        !.until = today,
                        !.totalBatches = CountBatches(today, cutoff(today, bm.days))]
    /\ UNCHANGED <<pc, today, syncDays, chunks, syncVars, pureVars, tfPrev, botVars>>

\* progress.updateStatus("Sync complete!")
SyncComplete(b) == [b EXCEPT !.pos = "done", !.status = "Sync complete!"]

\* the catch block: showError("Sync Failed", err.message)
SyncFailed(b, msg) == [b EXCEPT !.pos = "done", !.status = "Sync Failed", !.error = msg]

\* if (!Array.isArray(bankData)) break
NotAnArray(b) == SyncComplete(b)

\* one pass of `while (until > cutoff)`: the range is computed and asked
\* for; an array is transformed and, if not empty, sent to Lunch Money
\* (sent tells whether that POST was accepted); until = from - 1
BookmarkletFetch ==
    /\ bm.pos = "fetch"
    /\ bm.until > cutoff(today, bm.days)
    /\ LET from  == RangeFrom(bm.until, cutoff(today, bm.days))
           asked == [bm EXCEPT !.batchNumber = @ + 1,
                               !.requested = Append(@, [from |-> formatDate(from),
                                                        to   |-> formatDate(bm.until)])]
       IN \E resp \in Responses, sent \in BOOLEAN :
             LET got == [asked EXCEPT !.answer = resp.kind] IN
             IF resp.kind = "error"
             THEN bm' = SyncFailed(got, "ICS API error: 500")
             ELSE IF ~IsArray(resp)
             THEN bm' = NotAnArray(got)
             ELSE IF Len(resp.body) > 0 /\ ~sent
             THEN bm' = SyncFailed([got EXCEPT !.totalFetched = @ + Len(resp.body)],
                                   "Lunch Money API error: 500")
             ELSE LET next == [got EXCEPT !.totalFetched = @ + Len(resp.body),
                                          !.until = from - 1]
                  IN bm' = IF next.until > cutoff(today, bm.days)
                           THEN next
                           ELSE SyncComplete(next)
    /\ UNCHANGED <<pc, today, syncDays, chunks, syncVars, pureVars, tfPrev, botVars>>

NextBookmarklet == BookmarkletStart \/ BookmarkletFetch

SpecBookmarklet == InitBookmarklet /\ [][NextBookmarklet]_vars

(***************************************************************************)
(* Properties of the date chunker                                          *)
(***************************************************************************)
\* the day number a formatted date stands for
DayOf(date) ==
    CHOOSE n \in (today - MaxSyncDays - 2)..(today + 2) : formatDate(n) = date

\* day n lies in range c (both ends inclusive)
InRange(n, c) == DateLeq(c.from, formatDate(n)) /\ DateLeq(formatDate(n), c.to)

RangesWith(n) == {i \in 1..Len(chunks) : InRange(n, chunks[i])}

Window == (today - syncDays)..today

\* C7: for every lookbackDays > 0 the ranges of getDateChunks are contiguous
\* and non-overlapping and cover exactly [today - lookbackDays, today]: every
\* day of the window, today and the cutoff day included, lies in exactly one
\* range, and no range holds a day outside the window.
C7_CoversWindowExactly ==
    pc = "chunked" =>
        /\ \A n \in Window : Cardinality(RangesWith(n)) = 1
        /\ \A n \in {today - syncDays - 1, today + 1} : RangesWith(n) = {}
        /\ \A i \in 1..(Len(chunks) - 1) :
               DayOf(chunks[i + 1].from) = DayOf(chunks[i].to) + 1

\* C9: for every lookbackDays > 0 each range of getDateChunks satisfies
\* from <= to and is at most 30 days wide.
C9_WidthAtMost30 ==
    pc = "chunked" =>
        \A i \in 1..Len(chunks) :
            /\ DateLeq(chunks[i].from, chunks[i].to)
            /\ DayOf(chunks[i].to) - DayOf(chunks[i].from) <= 30

\* a lookback that needs several ranges, the first of them of full width
C9_Witness ==
    /\ pc = "chunked"
    /\ Len(chunks) >= 3
    /\ DayOf(chunks[1].to) - DayOf(chunks[1].from) = 30

(***************************************************************************)
(* Properties of the bot's run lock                                        *)
(***************************************************************************)
RunningChildren == {q \in Queries : handler[q] = "running"}

\* C3: for every interleaving of authorized GO callbacks with the child's
\* 'close' and 'error' events, at most one sync child process is running.
C3_AtMostOneChild == Cardinality(RunningChildren) <= 1

\* C4: every acquisition of the run lock is eventually followed by its
\* release, on every path, so a later trigger is never rejected forever.
C4_LockEventuallyReleased == isSyncing ~> ~isSyncing

(***************************************************************************)
(* Properties of a run of the sync script                                  *)
(***************************************************************************)
Range(seq) == {seq[i] : i \in 1..Len(seq)}

\* C1: in every run in which the browser was launched, browser.close() is
\* invoked before the process ends, on every exit path of sync(): success,
\* the zero-transaction short circuit and a failure thrown by a stage.
C1_BrowserClosedOnEveryExit ==
    (/\ pc = "exited"
     /\ browser # "none"
     /\ Last(results).step # "unhandled_error") => closeCalled

\* C2: every run of the script emits exactly one terminal result object,
\* never zero and never two.
C2_ExactlyOneResult == pc = "exited" => Len(results) = 1

\* C5: when a run uploads the raw transactions the previous run uploaded
\* successfully (same configuration, ledger deduplicating on external_id),
\* nothing is inserted and every record is reported as skipped duplicate.
C5_SecondUploadInsertsNothing ==
    (/\ prev.uploaded
     /\ Range(prev.raw) = Range(allTransactions)
     /\ Len(results) > 0
     /\ results[1].success
     /\ results[1].syncedCount > 0)
    => /\ results[1].insertedCount = 0
       /\ results[1].skippedCount = Len(lmTransactions)

\* the second run has uploaded, in two batches, what the first run uploaded
C5_Witness ==
    /\ run = 2
    /\ prev.uploaded
    /\ prev.raw = allTransactions
    /\ Len(results) > 0
    /\ results[1].success
    /\ results[1].syncedCount > batchSize
    /\ Cardinality(Range(allTransactions)) >= 2

\* the two processes gave the raw transaction the same external_id
SameIds(a, b) ==
    /\ Len(a) = Len(b)
    /\ \A i \in 1..Len(a) : a[i].external_id = b[i].external_id

BothTransformed == pc = "transformed" /\ tfPrev # NoTransform

\* C6 as stated: the same raw transaction gets the same external_id in every
\* run; the external_id is a function of the raw transaction only.
C6_SameIdInEveryRun == BothTransformed => SameIds(tfPrev.out, lmTransactions)

\* C6 as amended: the external_id is a function of the raw transaction and of
\* the configured EXTERNAL_ID_SUFFIX only; two runs with the same suffix give
\* the same raw transaction the same external_id, whatever their tag ids.
C6_SameIdForSameSuffix ==
    (BothTransformed /\ tfPrev.sfx = suffix) => SameIds(tfPrev.out, lmTransactions)

\* two runs with the same suffix and different import tags
C6_Witness ==
    /\ BothTransformed
    /\ tfPrev.sfx = suffix
    /\ suffix = "v2"
    /\ tfPrev.tag # tagId
    /\ tfPrev.out[1].tag_ids # lmTransactions[1].tag_ids

\* range b starts the day after range a ends
Follows(a, b) == DayOf(b.from) = DayOf(a.to) + 1

\* the ranges requested so far are the first ranges of the chunker, in order
RequestedInOrder ==
    /\ Len(requested) <= Len(chunks)
    /\ requested = SubSeq(chunks, 1, Len(requested))

C10_InvalidResponseAborts ==
    invalidAt > 0 =>
        /\ pc = "exited"
        /\ Len(requested) = invalidAt
        /\ Len(results) = 1
        /\ ~results[1].success
        /\ exitCode = 1
        /\ ledgerWrites = 0
        /\ tagId = 0
        /\ lmTransactions = <<>>

\* the second range is answered with a non-array after the first range
\* delivered transactions
C10_Witness ==
    /\ invalidAt = 2
    /\ Len(allTransactions) > 0
    /\ Len(chunks) = 3
    /\ pc = "exited"

(***************************************************************************)
(* Properties of the order of the stages                                   *)
(***************************************************************************)
\* determineAccountNumber has returned an account to sync()
AccountIsResolved == chunkIdx > 0

\* every range of the chunker has been requested and answered with an array
AllRangesFetched ==
    /\ AccountIsResolved
    /\ chunkIdx = Len(chunks) + 1
    /\ Len(requested) = Len(chunks)
    /\ invalidAt = 0

Sent(kinds) == \E i \in 1..Len(sourceRequests) : sourceRequests[i] \in kinds

\* C11 as stated: no request to the bank's API (account list, transaction
\* search) before the second factor is confirmed, no transaction search
\* before the account is resolved, no ledger write (tag creation, insert)
\* before every date range has been fetched successfully.
C11_StagesInSequence ==
    /\ sourceRequests # <<>> => twoFAConfirmed
    /\ Sent({"search", "preview"}) => AccountIsResolved
    /\ ledgerWrites > 0 => AllRangesFetched

\* C11 as amended: no request to the bank's API before the second factor is
\* confirmed; no transaction search of the fetch loop before the account is
\* resolved, while the resolver's own preview searches are sent only when
\* several accounts were returned and none is configured, and then no account
\* is resolved; no ledger write before every date range has been fetched
\* successfully.
C11_StagesInSequenceButPreviews ==
    /\ sourceRequests # <<>> => twoFAConfirmed
    /\ Sent({"search"}) => AccountIsResolved
    /\ Sent({"preview"}) =>
           /\ ~AccountIsResolved
           /\ Len(accounts) > 1
           /\ accountNumber \in Falsy
    /\ ledgerWrites > 0 => AllRangesFetched

\* a run that has fetched three ranges and has written to the ledger
C11_Witness ==
    /\ Len(chunks) = 3
    /\ Sent({"search"})
    /\ ledgerWrites > 1
    /\ twoFAConfirmed

(***************************************************************************)
(* Properties of the upload                                                *)
(***************************************************************************)
\* C12: each batch is submitted at most once per run and in order; after the
\* first batch that fails (non-success status, unparsable body, error body
\* or network error) no further batch is submitted, none is retried, and the
\* run ends in failure.
C12_NoBatchAfterFailure ==
    /\ \A i \in 1..Len(posted) : posted[i].batch = i
    /\ \A i \in 1..Len(posted) :
           posted[i].outcome # "created" =>
               /\ i = Len(posted)
               /\ pc = "exited"
               /\ exitCode = 1
               /\ Len(results) = 1
               /\ ~results[1].success

\* the second of three batches has failed
C12_Witness ==
    /\ NumBatches(lmTransactions) = 3
    /\ Len(posted) = 2
    /\ posted[1].outcome = "created"
    /\ posted[2].outcome = "unparsable"
    /\ pc = "exited"

\* the upload has failed at a batch after the first
LaterBatchFailed ==
    /\ pc = "exited"
    /\ Len(posted) > 1
    /\ Last(posted).outcome # "created"

\* C13: when batch k of the upload fails after batches 1..k-1 succeeded, the
\* terminal failure result reports the number of transactions that batches
\* 1..k-1 inserted.
C13_FailureReportsInserted ==
    LaterBatchFailed =>
        /\ ~Last(results).success
        /\ "insertedCount" \in Last(results).keys
        /\ Last(results).insertedCount = SumInserted(batchResults, 1)

\* C14: if the fetch returns zero transactions, the run reports success with
\* transactionsCount = 0 and syncedCount = 0, and neither a tag creation nor
\* a transaction insert is sent to the ledger.
C14_NothingFetchedNothingSent ==
    (AllRangesFetched /\ Len(allTransactions) = 0) =>
        /\ Len(results) >= 1
        /\ results[1].success
        /\ {"transactionsCount", "syncedCount"} \subseteq results[1].keys
        /\ results[1].transactionsCount = 0
        /\ results[1].syncedCount = 0
        /\ ledgerWrites = 0
        /\ tagId = 0
        /\ posted = <<>>

\* three ranges were fetched, all of them empty, and the run has ended
C14_Witness ==
    /\ Len(chunks) = 3
    /\ AllRangesFetched
    /\ Len(allTransactions) = 0
    /\ pc = "exited"
    /\ exitCode = 0

(***************************************************************************)
(* Properties of the transformers                                          *)
(***************************************************************************)
HasTransformed == pc \in {"transformed", "bookmarklet"}

\* every amount has the sign its indicator asks for, debits having sign sgn
SignFollowsIndicator(sgn) ==
    \A i \in 1..Len(lmTransactions) :
        lmTransactions[i].amount =
            (IF allTransactions[i].debitCredit = "DEBIT" THEN sgn ELSE -sgn)
                * Abs(allTransactions[i].billingAmount)

\* C15: for every raw transaction the sign of the normalized amount is
\* determined by the debit/credit indicator and not by the sign of
\* billingAmount: all DEBIT transactions get one sign, all CREDIT
\* transactions the opposite sign, and |amount| = |billingAmount|; in the
\* sync script and in the bookmarklet.
C15_SignFromIndicator ==
    HasTransformed => \E sgn \in {-1, 1} : SignFollowsIndicator(sgn)

\* C16: the amounts sent to the Lunch Money v2 API follow the documented
\* sign convention: a DEBIT is sent as a positive amount, a CREDIT as a
\* negative amount.
C16_DocumentedSign ==
    pc = "transformed" =>
        \A i \in 1..Len(lmTransactions) :
            lmTransactions[i].amount =
                DocumentedAmount(allTransactions[i].debitCredit,
                                 Abs(allTransactions[i].billingAmount))

\* the fields of the identifying tuple
IdFields == {"transactionDate", "processingTime", "batchNr", "batchSequenceNr",
             "billingAmount"}

\* the fields of the identifying tuple in which t and u differ
Differing(t, u) == {f \in IdFields : t[f] # u[f]}

\* C17: two raw transactions that differ only in transactionDate get
\* different external_ids, even when batchNr and batchSequenceNr are equal.
C17_DateSeparates ==
    (/\ pc = "transformed"
     /\ Len(allTransactions) = 2
     /\ allTransactions[1].debitCredit = allTransactions[2].debitCredit
     /\ Differing(allTransactions[1], allTransactions[2]) = {"transactionDate"})
    => lmTransactions[1].external_id # lmTransactions[2].external_id

\* two purchases of the same batch number and sequence, one day apart
C17_Witness ==
    /\ pc = "transformed"
    /\ Len(allTransactions) = 2
    /\ Differing(allTransactions[1], allTransactions[2]) = {"transactionDate"}
    /\ allTransactions[1].debitCredit = allTransactions[2].debitCredit
    /\ allTransactions[1].batchNr = "7"
    /\ allTransactions[1].batchSequenceNr = "1"
    /\ suffix = "v2"

\* C18: the external_id is injective on the identifying tuple: two raw
\* transactions that differ in at least one of transaction date, processing
\* time, batch number, batch sequence number and billed amount get different
\* external_ids, also when one has no processing time and the other has one.
C18_IdInjective ==
    (/\ pc = "transformed"
     /\ Len(allTransactions) = 2
     /\ Differing(allTransactions[1], allTransactions[2]) # {})
    => lmTransactions[1].external_id # lmTransactions[2].external_id

(***************************************************************************)
(* Properties of the account resolution                                    *)
(***************************************************************************)
\* failures of the resolver's requests, as opposed to its decisions
ResolverFaults == {"Failed to fetch accounts", "Failed to extract cookies",
                   "Unhandled promise rejection"}

\* the run ended inside the resolver
EndedInResolver == pc = "exited" /\ Sent({"accounts"}) /\ ~AccountIsResolved

\* the resolver has the descriptors and has taken its decision
Decided ==
    /\ Sent({"accounts"})
    /\ pc # "resolve"
    /\ ~(EndedInResolver /\ Last(results).error \in ResolverFaults)

ResolvedTo(number) == AccountIsResolved /\ accountNumber = number

FailsWith(msg) ==
    /\ EndedInResolver
    /\ Len(results) = 1
    /\ ~results[1].success
    /\ results[1].error = msg

\* C19: account resolution as a function of the returned descriptors and the
\* configured id: zero descriptors fail with 'No accounts found' whether or
\* not an id is configured; a configured id succeeds with that id iff it
\* equals some descriptor's accountNumber exactly and otherwise fails with
\* 'account not found', whatever the number of descriptors; exactly one
\* descriptor and no configured id resolve to that descriptor's number.
C19_AccountResolution ==
    Decided =>
        /\ Len(accounts) = 0 => FailsWith("No accounts found")
        /\ (Len(accounts) > 0 /\ ICS_ACCOUNT_NUMBER \notin Falsy) =>
               IF \E i \in 1..Len(accounts) :
                      accounts[i].accountNumber = ICS_ACCOUNT_NUMBER
               THEN ResolvedTo(ICS_ACCOUNT_NUMBER)
               ELSE FailsWith("Account " \o ICS_ACCOUNT_NUMBER
                                  \o " not found in available accounts")
        /\ (Len(accounts) = 1 /\ ICS_ACCOUNT_NUMBER \in Falsy) =>
               ResolvedTo(accounts[1].accountNumber)

\* the configured id is the number of the second of two descriptors
C19_Witness ==
    /\ Decided
    /\ Len(accounts) = 2
    /\ ICS_ACCOUNT_NUMBER = accounts[2].accountNumber
    /\ ResolvedTo("A2")
    /\ Sent({"search"})

\* the multiple-accounts error has been thrown
SeveralAccountsReported ==
    /\ FailsWith(MultipleAccountsMessage(Len(accounts), accountDetails))
    /\ Len(accountDetails) = Len(accounts)

\* C20: with N > 1 descriptors and no configured id the resolver never
\* selects an account: it fails with the multiple-accounts error, which
\* carries exactly N entries, one per descriptor in order; a preview that
\* fails turns only its own entry into 'no recent transactions', neither
\* aborting the resolution nor dropping the entry; no transaction sync
\* follows.
C20_SeveralAccountsNeverResolved ==
    (Len(accounts) > 1 /\ ICS_ACCOUNT_NUMBER \in Falsy) =>
        /\ ~AccountIsResolved
        /\ accountNumber \in Falsy
        /\ ~Sent({"search"})
        /\ ledgerWrites = 0
        /\ Len(accountDetails) = Len(previews)
        /\ \A i \in 1..Len(accountDetails) :
               /\ accountDetails[i].accountNumber = accounts[i].accountNumber
               /\ (accountDetails[i].latestTransaction = <<>>) <=> (previews[i] # "array")
        /\ Len(previews) = Len(accounts) => SeveralAccountsReported
        /\ (EndedInResolver /\ Last(results).error \notin ResolverFaults) =>
               SeveralAccountsReported

\* three accounts; the preview of the second was rejected, the one of the
\* third was answered with a status that is not ok
C20_Witness ==
    /\ Len(accounts) = 3
    /\ previews = <<"array", "rejected", "null">>
    /\ SeveralAccountsReported

(***************************************************************************)
(* Terminal results and failures                                           *)
(***************************************************************************)
\* C21: when the 2FA wait elapses the run fails with the 2FA-timeout error,
\* and a failure carries that error only if it is the elapsed wait: the
\* object was written in the wait itself, with the confirmation not given.
C21_TwoFAErrorOnlyFromElapsedWait ==
    \A i \in 1..Len(results) :
        (~results[i].success /\ results[i].error = TwoFATimeoutError)
            => (results[i].stage = "wait2fa" /\ ~twoFAConfirmed)

\* the 2FA was confirmed in time, and the run ended with the 2FA-timeout error
C21_ConfirmedYetTimeout ==
    /\ pc = "exited"
    /\ twoFAConfirmed
    /\ Len(results) = 1
    /\ results[1].error = TwoFATimeoutError

\* the failures of login() carry other errors
LoginErrorsDiffer ==
    \A i \in 1..Len(results) :
        results[i].stage \in {"page_load", "fill_form", "submit_form"}
            => results[i].error # TwoFATimeoutError

\* some required variable is missing, empty or holds the placeholder
EnvUnusable == \E k \in DOMAIN env : env[k] \in InvalidValues

\* C22: with a required variable missing, empty or holding 'your_' the script
\* ends with a failure result of step 'validation', and it launches no
\* browser and sends no request to the source or to the ledger.
C22_ValidationBeforeAnything ==
    EnvUnusable =>
        /\ pc \in {"start", "exited"}
        /\ browser = "none"
        /\ sourceRequests = <<>>
        /\ ledgerWrites = 0
        /\ posted = <<>>
        /\ pc = "exited" =>
              /\ exitCode = 1
              /\ Len(results) = 1
              /\ ~results[1].success
              /\ results[1].step = "validation"
              /\ "step" \in results[1].keys

\* the token holds the placeholder inside its text, and the script has ended
C22_Witness ==
    /\ pc = "exited"
    /\ env.LUNCHMONEY_TOKEN = Text(<<"a">> \o Placeholder \o <<"b">>)
    /\ Len(results) = 1
    /\ results[1].step = "validation"
    /\ results[1].error = "Missing or invalid environment variable: LUNCHMONEY_TOKEN"

\* the properties every successful result is to carry
SuccessKeys ==
    {"message", "transactionsCount", "syncedCount", "insertedCount", "skippedCount",
     "fromDate", "untilDate", "accountNumber"}

\* C23: every result with success = true, the one of the zero-transaction
\* short circuit included, carries message, transactionsCount, syncedCount,
\* insertedCount, skippedCount, fromDate, untilDate and the account.
C23_SuccessCarriesAllCounts ==
    \A i \in 1..Len(results) :
        results[i].success => SuccessKeys \subseteq results[i].keys

\* a run that uploaded transactions ended with a result carrying all of them
UploadCarriesAllCounts ==
    /\ pc = "exited"
    /\ Len(results) = 1
    /\ results[1].success
    /\ results[1].transactionsCount > 0
    /\ SuccessKeys \subseteq results[1].keys

\* the stages the script goes through, and the identifier of each
StepOf ==
    [page_load |-> "page_load", fill_form |-> "fill_form", submit_form |-> "submit_form",
     wait2fa |-> "2fa_wait", target_closed |-> "2fa_wait", settle |-> "2fa_wait",
     account |-> "determine_account", resolve |-> "determine_account",
     preview |-> "determine_account", chunk |-> "fetch_transactions",
     upload |-> "send_to_lunchmoney"]

\* C24: every failure result carries the identifier of the stage that
\* failed: page load, form fill, submit, 2FA wait, account determination,
\* fetch and upload each yield a step naming that stage.
C24_FailureNamesStage ==
    \A i \in 1..Len(results) :
        (~results[i].success /\ results[i].stage \in DOMAIN StepOf)
            => results[i].step = StepOf[results[i].stage]

\* the stage of a failure can be read from its step
FailureStepsSeparateStages ==
    \A i \in 1..Len(results) :
        (~results[i].success /\ results[i].stage \in DOMAIN StepOf)
            => results[i].step # "unknown"

(***************************************************************************)
(* The upload                                                              *)
(***************************************************************************)
RECURSIVE BatchesFrom(_, _)
BatchesFrom(txs, k) ==
    IF k > NumBatches(txs) THEN <<>> ELSE Batch(txs, k) \o BatchesFrom(txs, k + 1)

\* every batch of the run was POSTed once, in order, and answered with a
\* success status and a body without an error
EveryBatchAccepted ==
    /\ Len(posted) = NumBatches(lmTransactions)
    /\ Len(batchResults) = NumBatches(lmTransactions)
    /\ \A k \in 1..Len(posted) :
          /\ posted[k].batch = k
          /\ posted[k].outcome = "created"
          /\ posted[k].status \in 200..299

\* C25: a result with success = true and transactionsCount > 0 is produced
\* only if every fetched transaction was transformed and submitted in
\* exactly one batch, and every batch was accepted by the ledger.
C25_SuccessMeansAllAccepted ==
    \A i \in 1..Len(results) :
        (results[i].success /\ results[i].transactionsCount > 0) =>
            /\ results[i].transactionsCount = Len(allTransactions)
            /\ results[i].syncedCount = Len(allTransactions)
            /\ lmTransactions = [n \in 1..Len(allTransactions) |->
                                    transformOne(allTransactions[n], tagId, suffix)]
            /\ BatchesFrom(lmTransactions, 1) = lmTransactions
            /\ EveryBatchAccepted

\* three transactions went up in two accepted batches
C25_Witness ==
    /\ pc = "exited"
    /\ exitCode = 0
    /\ Len(results) = 1
    /\ results[1].success
    /\ results[1].transactionsCount = 3
    /\ Len(posted) = 2

RECURSIVE SumOfLengths(_, _)
SumOfLengths(seqs, i) ==
    IF i > Len(seqs) THEN 0 ELSE Len(seqs[i]) + SumOfLengths(seqs, i + 1)

\* the sums over the batch responses of the lengths of `transactions` and
\* of `skipped_duplicates`
TotalInserted == SumOfLengths([k \in 1..Len(batchResults) |-> batchResults[k].transactions], 1)

TotalSkipped ==
    SumOfLengths([k \in 1..Len(batchResults) |-> batchResults[k].skipped_duplicates], 1)

UploadReturned == pc \in {"closing", "exited"} /\ posted # <<>> /\ EveryBatchAccepted

MismatchWarned ==
    /\ pc = "exited"
    /\ UploadReturned
    /\ Len(lmTransactions) = 3
    /\ TotalInserted = 2
    /\ TotalSkipped = 0
    /\ "sync_count_mismatch" \in logged
    /\ results[1].success
    /\ exitCode = 0

\* C27: a reply with a status that is no success, and a reply with a
\* success status whose body carries an error field, both fail the batch:
\* it is not counted among the accepted batches, no batch follows it, and
\* the run ends as a failure.
C27_RefusedReplyFailsRun ==
    \A k \in 1..Len(posted) :
        (posted[k].status \notin 200..299 \/ posted[k].outcome = "errorbody") =>
            /\ k = Len(posted)
            /\ Len(batchResults) = k - 1
            /\ pc = "exited"
            /\ exitCode = 1
            /\ \A i \in 1..Len(results) :
                  ~results[i].success /\ results[i].insertedCount = 0

\* the second batch was answered 200 with an error in the body, after the
\* first was accepted
C27_Witness ==
    /\ Len(posted) = 2
    /\ posted[1].outcome = "created"
    /\ posted[2].outcome = "errorbody"
    /\ posted[2].status = 200
    /\ Len(batchResults) = 1
    /\ exitCode = 1

\* a batch was answered 503 with a body that is no JSON, another run's 429
\* with a JSON body
StatusRefusedUnreadable == posted # <<>> /\ Last(posted).status = 503 /\ exitCode = 1

StatusRefusedReadable == posted # <<>> /\ Last(posted).status = 429 /\ exitCode = 1

\* the statuses with a kind of their own
NamedStatuses == {401, 429, 503, 400, 404}

\* the message of each kind of failure status
KindMessages(status, body) ==
    CASE status = 401 ->
           {"Invalid Lunch Money API token. Please check your LUNCHMONEY_TOKEN."}
      [] status = 429 ->
           {"Lunch Money rate limit exceeded (429). Please try again later."}
      [] status = 503 ->
           {"Lunch Money service is temporarily unavailable (503). Please try again in a few minutes."}
      [] status = 400 -> {"Lunch Money bad request (400): " \o body}
      [] status = 404 ->
           {"Lunch Money resource not found (404). Check your manual_account_id."}
      [] status >= 500 /\ status # 503 ->
           {"Lunch Money server error. Please try again later.",
            "Lunch Money server error (" \o ToString(status)
                \o "). The service may be experiencing issues."}
      [] OTHER ->
           {"Lunch Money client error (" \o ToString(status)
                \o "). Please check your configuration."}

RedirectGetsGenericMessage ==
    (pc = "checked" /\ reply.status \in 300..399) =>
        verdict.thrown = "Lunch Money API error (" \o ToString(reply.status) \o ")"

(***************************************************************************)
(* Who may start a run                                                     *)
(***************************************************************************)
\* the handler took the run lock, and what follows from there
LockTaken == {"answering", "editing", "aborted", "running", "spawnfailed", "exited",
              "errored", "closed"}

\* update q is handled in this step
Handled(q) == handler[q] = "none" /\ handler'[q] # "none"

\* C29: a run is started only by a callback query whose sender is USER_ID; a
\* message, and a callback query of any other user, spawns no sync process
\* and leaves the run lock as it is, whatever its state.
C29_OnlyTheUserStartsARun ==
    [][\A q \in Queries :
          /\ handler'[q] \in LockTaken => sender'[q] = USER_ID
          /\ (Handled(q) /\ sender'[q] # USER_ID) =>
                 /\ isSyncing' = isSyncing
                 /\ handler'[q] \in {"teapot", "told_teapot"}
          /\ (Handled(q) /\ handler'[q] \in {"button", "told_teapot"}) =>
                 isSyncing' = isSyncing
          /\ (Handled(q) /\ isSyncing' # isSyncing) =>
                 (sender'[q] = USER_ID /\ handler'[q] = "answering")]_vars

\* a stranger's callback query was turned away while the user's run held
\* the lock
C29_Witness ==
    \E q, p \in Queries :
        /\ sender[q] = "2002"
        /\ handler[q] = "teapot"
        /\ sender[p] = USER_ID
        /\ handler[p] = "running"
        /\ p < q
        /\ isSyncing

(***************************************************************************)
(* The import tag                                                          *)
(***************************************************************************)
\* the tags of the requested name in the ledger's list
Named == {i \in 1..Len(reply.tags) : reply.tags[i].name = importTag}

\* the POST was answered with a body that parses
Answered == reply.reached /\ reply.json

\* the tag list came back as a list
Listed == reply.listStatus \in 200..299 /\ reply.listJson /\ reply.listArray

\* with 400 and a tag of the requested name in the list, the id of that tag
\* is returned
ExistingTagReturned ==
    (pc = "tagged" /\ Answered /\ reply.status = 400 /\ Listed /\ Named # {}) =>
        /\ verdict.ok
        /\ \E i \in Named : verdict.id = reply.tags[i].id /\ \A j \in Named : i <= j

AuthSteps == <<"page_load", "fill_form", "submit_form", "2fa_wait", "2fa_verified">>

IsAuthEvent(e) == \E i \in 1..Len(AuthSteps) : e.step = AuthSteps[i]

AuthEvents == SelectSeq(events, IsAuthEvent)

\* how many of the five steps the login has entered at a position, or had
\* entered when it failed in a stage
StepsEntered ==
    [page_load |-> 1, cookie_banner |-> 1, fill_form |-> 2, submit_form |-> 3,
     navigation |-> 3, wait2fa |-> 4, target_closed |-> 4, settle |-> 5, cookies |-> 5]

LoginFailed == pc = "exited" /\ Len(results) > 0 /\ ~Last(results).success

AuthInOrder ==
    /\ Len(AuthEvents) <= Len(AuthSteps)
    /\ \A i \in 1..Len(AuthEvents) : AuthEvents[i].step = AuthSteps[i]
    /\ pc \in DOMAIN StepsEntered => Len(AuthEvents) = StepsEntered[pc]
    /\ LoginFailed =>
          /\ exitCode = 1
          /\ Last(results).stage \in DOMAIN StepsEntered \ {"cookie_banner", "navigation"}
          /\ Len(AuthEvents) = StepsEntered[Last(results).stage]

AuthStep ==
    /\ pc \in {"cookie_banner", "navigation"} => pc' # "exited"
    /\ pc = "exited" => pc' = "exited" /\ events' = events /\ results' = results

FieldMissing == site.username # "visible" \/ site.password # "visible"

FillFormFailedWith(msgs) ==
    /\ pc = "exited"
    /\ Last(results).stage = "fill_form"
    /\ Last(results).error \in msgs

NeverSubmitted ==
    /\ pc \notin {"submit_form", "navigation", "wait2fa", "settle", "cookies"}
    /\ \A i \in 1..Len(events) : events[i].step \notin {"submit_form", "2fa_wait"}
    /\ pc = "exited" => Len(results) = 1 /\ Last(results).stage \in {"page_load", "fill_form"}

\* C32 as stated: when the displayed user-name input or the displayed password
\* input is missing, the login fails with 'Could not find username or
\* password field', the login button is never clicked and wait2FA is never
\* entered.
C32_MissingFieldError ==
    FieldMissing =>
       /\ NeverSubmitted
       /\ (pc = "exited" /\ Last(results).stage = "fill_form")
             => FillFormFailedWith({"Could not find username or password field"})

\* C32: when the displayed user-name input or the displayed password input is
\* missing, the login button is never clicked, wait2FA is never entered and
\* the form fill fails: with the time-out of the wait for an input when no
\* text, email or untyped input is in the document, and with 'Could not find
\* username or password field' otherwise.
C32_MissingFieldFailsLogin ==
    FieldMissing =>
       /\ NeverSubmitted
       /\ (pc = "exited" /\ Last(results).stage = "fill_form")
             => IF site.username = "absent"
                THEN FillFormFailedWith({SelectorTimeout})
                ELSE FillFormFailedWith({"Could not find username or password field"})

C32_Witness ==
    /\ site.username = "visible"
    /\ site.password = "hidden"
    /\ site.button
    /\ FillFormFailedWith({"Could not find username or password field"})

\* the run in which the error is another one
C32_SelectorTimedOut ==
    /\ site.username = "absent"
    /\ site.password = "visible"
    /\ FillFormFailedWith({SelectorTimeout})

(***************************************************************************)
(* The fetch loop: requests, responses and progress events                 *)
(***************************************************************************)
IsFetchEvent(e) == e.step \in {"fetch_chunk", "search", "chunk_complete"}

FetchEvents == SelectSeq(events, IsFetchEvent)

RECURSIVE ResponsesUpTo(_, _)
\* the arrays the first k search requests were answered with, one after
\* the other
ResponsesUpTo(es, k) ==
    IF k = 0 THEN <<>> ELSE ResponsesUpTo(es, k - 1) \o es[3 * k - 1].body

FetchReturned == chunkIdx = Len(chunks) + 1 /\ Len(chunks) > 0

\* the events of the ranges that were answered with an array come in threes
ChunkEventsInOrder ==
    \A i \in 1..(chunkIdx - 1) :
       /\ 3 * i <= Len(FetchEvents)
       /\ FetchEvents[3 * i - 2] = FetchChunkEvent(i)
       /\ FetchEvents[3 * i - 1].step = "search"
       /\ FetchEvents[3 * i - 1].n = i
       /\ requested[i] = chunks[i]
       /\ FetchEvents[3 * i].step = "chunk_complete"
       /\ FetchEvents[3 * i].n = i
       /\ FetchEvents[3 * i].total = Len(ResponsesUpTo(FetchEvents, i))

\* C33: when fetchTransactions has returned, it has sent one search request
\* per range, in the order of getDateChunks; its result is the responses put
\* one after the other in that order; and each request comes after the
\* 'fetch_chunk' event of its range and before its 'chunk_complete' event,
\* which carries the count so far and precedes the next range.
C33_OneRequestPerChunkInOrder ==
    /\ chunkIdx > 0 => ChunkEventsInOrder
    /\ FetchReturned =>
          /\ Len(FetchEvents) = 3 * Len(chunks)
          /\ requested = chunks
          /\ allTransactions = ResponsesUpTo(FetchEvents, Len(chunks))

C33_Witness ==
    /\ FetchReturned
    /\ Len(chunks) = 2
    /\ allTransactions = <<TxA, TxB, TxC>>
    /\ FetchEvents[3].total = 1
    /\ FetchEvents[6].total = 3

(***************************************************************************)
(* The batches of sendToLunchMoney                                         *)
(***************************************************************************)
RECURSIVE Flattened(_, _)
Flattened(seqs, i) ==
    IF i > Len(seqs) THEN <<>> ELSE seqs[i] \o Flattened(seqs, i + 1)

\* the least q with q * d >= n
Ceil(n, d) == CHOOSE q \in 0..n : q * d >= n /\ \A r \in 0..(q - 1) : r * d < n

\* C34: the batches of sendToLunchMoney are consecutive pieces of the list in
\* its order: each holds between 1 and batchSize transactions, each but the
\* last holds batchSize, put one after the other they give the list, and
\* there are ceil(n / batchSize) of them; the k-th batch the upload loop
\* sends is the k-th of them.
C34_BatchesPartitionTheList ==
    LET bs == batches(lmTransactions)
        n  == Len(lmTransactions)
    IN /\ \A k \in 1..Len(bs) : Len(bs[k]) \in 1..batchSize
       /\ \A k \in 1..(Len(bs) - 1) : Len(bs[k]) = batchSize
       /\ Flattened(bs, 1) = lmTransactions
       /\ Len(bs) = Ceil(n, batchSize)
       /\ Len(bs) = NumBatches(lmTransactions)
       /\ \A k \in 1..Len(bs) : bs[k] = Batch(lmTransactions, k)

C34_Witness ==
    /\ pc = "upload"
    /\ Len(lmTransactions) > batchSize
    /\ Len(lmTransactions) % batchSize # 0
    /\ Len(batches(lmTransactions)) >= 2
    /\ Len(posted) = 1

\* a list that is a whole number of batches
ListOfFullBatches ==
    /\ pc = "upload"
    /\ Len(lmTransactions) = 2 * batchSize
    /\ Len(batches(lmTransactions)) = 2

(***************************************************************************)
(* The ranges of the bookmarklet                                           *)
(***************************************************************************)
\* the loop ran until `until > cutoff` was false
RanToTheEnd ==
    /\ bm.pos = "done"
    /\ bm.status = "Sync complete!"
    /\ bm.until <= cutoff(today, bm.days)

AskedWith(n) == {i \in 1..Len(bm.requested) : InRange(n, bm.requested[i])}

MostRecentFirst ==
    \A i \in 1..(Len(bm.requested) - 1) :
        DayOf(bm.requested[i + 1].to) < DayOf(bm.requested[i].from)

\* C35: for every days >= 1 the ranges the bookmarklet asks for come most
\* recent first, every day from the cutoff (today - days) to today lies in
\* exactly one of them, and a run that reaches the end of its loop has sent
\* as many requests as the batches it counted beforehand.
C35_RangesCoverWindow ==
    /\ MostRecentFirst
    /\ Len(bm.requested) = bm.batchNumber
    /\ RanToTheEnd =>
          /\ \A n \in cutoff(today, bm.days)..today : Cardinality(AskedWith(n)) = 1
          /\ Len(bm.requested) = bm.totalBatches

\* the same without the cutoff day when days is a multiple of 31
RangesCoverWindowButCutoff ==
    /\ MostRecentFirst
    /\ Len(bm.requested) = bm.batchNumber
    /\ RanToTheEnd =>
          /\ \A n \in (cutoff(today, bm.days) + 1)..today : Cardinality(AskedWith(n)) = 1
          /\ bm.days % 31 # 0 => Cardinality(AskedWith(cutoff(today, bm.days))) = 1
          /\ bm.days % 31 = 0 => AskedWith(cutoff(today, bm.days)) = {}
          /\ Len(bm.requested) = bm.totalBatches

\* C36: an answer of the transaction search that is no array makes the sync
\* fail with an error, and 'Sync complete!' is never shown while ranges of
\* the window have not been fetched.
C36_NonArrayFailsSync ==
    /\ (bm.pos = "done" /\ bm.answer = "object") => bm.status = "Sync Failed"
    /\ bm.status = "Sync complete!" => Len(bm.requested) = bm.totalBatches

\* the run that ends with 'Sync complete!' after the first of several ranges
CompleteAfterFirstRange ==
    /\ bm.status = "Sync complete!"
    /\ bm.answer = "object"
    /\ bm.totalBatches = 3
    /\ Len(bm.requested) = 1

(***************************************************************************)
(* Exit code and terminal result                                           *)
(***************************************************************************)
WroteSuccess ==
    \E i \in 1..Len(results) : results[i].success /\ results[i].stream = "stdout"

EndsWithFailure ==
    /\ Len(results) > 0
    /\ ~Last(results).success
    /\ Last(results).stream = "stderr"

\* C37: the process exits with code 0 exactly when it has written a result
\* with success = true to stdout; every other exit has code 1 and comes after
\* a failure result written last to stderr.
C37_ExitCodeMatchesResult ==
    pc = "exited" =>
       /\ exitCode \in {0, 1}
       /\ exitCode = 0 <=> WroteSuccess
       /\ exitCode = 1 => EndsWithFailure

\* what holds of every exit: the code goes with the result written last
ExitCodeMatchesLastResult ==
    pc = "exited" =>
       /\ exitCode \in {0, 1}
       /\ exitCode = 0 <=> (Len(results) > 0 /\ Last(results).success
                              /\ Last(results).stream = "stdout")
       /\ exitCode = 1 => EndsWithFailure

\* the exit with code 1 of a run that has written its success result
SuccessWrittenYetExitOne ==
    /\ pc = "exited"
    /\ exitCode = 1
    /\ WroteSuccess
    /\ Last(results).step = "unhandled_error"

(***************************************************************************)
(* The lookback                                                            *)
(***************************************************************************)
\* C38: for every SYNC_DAYS text the validation accepts, the lookback handed
\* to getDateChunks is a positive integer: a text that parses to NaN or to 0
\* gives 30, and no accepted text gives a lookback of zero or less, for
\* which getDateChunks would return no range.
C38_LookbackPositive ==
    pc = "parsed" =>
       /\ syncDays > 0
       /\ (SYNC_DAYS(env).nan \/ SYNC_DAYS(env).value = 0) => syncDays = 30
       /\ Len(chunks) > 0

\* what holds: NaN and 0 give 30, every other accepted text gives the
\* number parseInt reads, and a negative one gives no range
LookbackAsParsed ==
    pc = "parsed" =>
       /\ (SYNC_DAYS(env).nan \/ SYNC_DAYS(env).value = 0) => syncDays = 30
       /\ ~(SYNC_DAYS(env).nan \/ SYNC_DAYS(env).value = 0) => syncDays = SYNC_DAYS(env).value
       /\ syncDays < 0 <=> (Len(chunks) = 0)

\* SYNC_DAYS = "-1" is accepted and gives no range
NegativeLookback ==
    /\ pc = "parsed"
    /\ env.SYNC_DAYS.text = <<"-", "1">>
    /\ syncDays = -1
    /\ chunks = <<>>

\* the runs of the script use the lookback the script would compute
RunLookbackAsParsed == FirstInvalid(env, 1) = 0 => syncDays = SYNC_DAYS_PARSED(env)

(***************************************************************************)
(* Errors inside wait2FA                                                   *)
(***************************************************************************)
Wait2FAStages == {"wait2fa", "target_closed", "settle"}

\* C39: whatever is thrown inside wait2FA, by the wait that elapsed, by a
\* wait that was rejected for another reason or by the delay after the
\* confirmation, the run fails with the one '2FA verification timeout' error.
C39_Wait2FAErrorsAllTheSame ==
    \A i \in 1..Len(results) :
        results[i].stage \in Wait2FAStages =>
            /\ ~results[i].success
            /\ results[i].error = TwoFATimeoutError

C39_Witness ==
    /\ pc = "exited"
    /\ twoFAConfirmed
    /\ Last(results).stage = "settle"
    /\ Last(results).error = TwoFATimeoutError

(***************************************************************************)
(* A failed import tag                                                     *)
(***************************************************************************)
TagStageFailed ==
    /\ pc = "exited"
    /\ Len(results) > 0
    /\ Last(results).stage = "tag"

\* C40: when the import tag of the run cannot be created, the run ends with a
\* failure result and has submitted no batch of transactions, although it has
\* fetched some; a batch is only ever submitted under a created tag.
C40_NoUploadWithoutTag ==
    /\ TagStageFailed =>
          /\ ~Last(results).success
          /\ exitCode = 1
          /\ Len(results) = 1
          /\ Len(allTransactions) > 0
          /\ posted = <<>>
          /\ ledgerWrites = 1
    /\ posted # <<>> => tagId # 0

C40_Witness ==
    /\ TagStageFailed
    /\ Last(results).error = "Failed to create tag: 500 - {}"
    /\ Len(allTransactions) = 3
    /\ posted = <<>>
====
